---------------------------- MODULE Spec2Model ----------------------------
(***************************************************************************)
(* Deterministic Action Core of the XI-IO framework: the hash-chained      *)
(* audit ledger (framework.py, ledger_guard.py), the workspace lock        *)
(* (xi_cli.py), the atomic tool executor (xi_utils.py), the ensemble       *)
(* adjudicator (optimized_orchestrator.py), the command governor and the   *)
(* workspace walk (xi_cli.py).                                             *)
(*                                                                         *)
(* Each subsystem has its own specification (SpecLedger, SpecLock,         *)
(* SpecExec, SpecAdj, SpecGov, SpecWalk; SpecGuard is the ledger with its  *)
(* readers and an external actor editing the files; SpecQuery is the       *)
(* query classifier, SpecEns the ensemble fan-out, SpecEnsLive the same    *)
(* under fair scheduling, SpecFence the chained-command executor); a       *)
(* specification leaves the variables of the other subsystems at their     *)
(* initial values.                                                         *)
(***************************************************************************)
EXTENDS Integers, Sequences, FiniteSets, TLC

VARIABLES
    \* ---- audit ledger ----
    ledgerFile,   \* ~/.xi-io/production_ledger.json: [exists, parses, data]
    backups,      \* ledger_backups/ledger_<epoch>.json.bak, oldest first
    now,          \* the clock read by time.time()
    nLogged,      \* number of log_action calls made so far
    lastLog,      \* what the last log_action call did
    everTruncated, \* some log_action call has cut the ledger to the cap
    readOut,      \* what LedgerGuard.read returned, while the ledger is untouched since
    nTampers,     \* edits an external actor has made to the ledger files
    \* ---- workspace lock ----
    lockPath,     \* the inode LOCK_FILE names, 0 when the path does not exist
    nInodes,      \* inodes created so far
    inodeText,    \* inode -> the PID written in it, 0 when it is empty
    inodeLock,    \* inode -> the session holding flock(LOCK_EX) on it, or 0
    fd,           \* session -> the inode its open file f refers to, or 0
    pc,           \* session -> where it is in workspace_lock()
    pidRead,      \* session -> the pid it read from the lockfile
    exitStatus,   \* session -> "" | "BUSY_WORKSPACE"
    \* ---- atomic tool executor ----
    wsRoot,       \* XIUtils.working_dir, a canonical directory
    wsLink,       \* where the symbolic link <workspace>/l points
    ctx,          \* XIUtils.context_manager: "none" or "ContextManager"
    fs,           \* file location -> [exists, bytes]
    bak,          \* file location -> its sibling <name>.backup, [exists, bytes]
    tmps,         \* the .xi-tmp-* files present: [dir, op]
    res,          \* what the last executor call returned (or that it raised)
    cli,          \* what the CLI read branch reported for it in receipts mode
    nOps,         \* executor calls made so far
    \* ---- ensemble adjudicator ----
    total_agents, \* len(successful) in execute_ensemble
    all_claims,   \* the claims extracted so far: [claim, agent]
    phase,        \* "extract" | "adjudicated"
    intersection_truth,  \* the promoted entries of the last adjudication
    minority_positions,  \* its other entries
    adjudication, \* what _adjudicate_claims returned
    \* ---- mode governor ----
    mode,         \* the AgenticMode of the process
    remaining,    \* how many commands of the chain are still to run
    proc,         \* "idle" | "running" | "exited"
    rc,           \* the exit code of the process
    lastLine,     \* the line run last
    format_mode,  \* orchestrator.format_mode: "chat" | "receipts"
    refusedAny,   \* the governor refused a command of this process
    shell,        \* shell commands run by XIUtils.run_command
    nProcs,       \* processes started so far
    \* ---- governed walker ----
    nfiles,       \* directory -> the matching files it holds
    readable,     \* directory -> os.scandir on it works
    stack,        \* the directories still to scan
    scans,        \* directory -> how many times os.scandir was called on it
    count,        \* matching files counted
    samples,      \* how many sample names were kept
    wstatus,      \* "idle" | "walking" | the status returned
    report,       \* what the query printed: "none" | "OP-11 HALT" | "Count"
    \* ---- query classifier ----
    query,        \* the utterance classified last
    classified,   \* what classify_query returned for it: <<QueryClass, metadata>>
    \* ---- ensemble fan-out ----
    backend,      \* model -> how its backend behaves during this call
    call,         \* model -> "queued" | "running" | "ok" | "error"
    completed,    \* the models whose call has returned, in the order they did
    successful,   \* the successful agents not yet through claim extraction
    ens_claims,   \* all_claims of execute_ensemble
    ens,          \* what execute_ensemble returned
    estage,       \* "idle" | "generating" | "extracting" | "returned"
    \* ---- chained-command executor ----
    in_code_block, \* what the last execute_command_string call returned
    received,     \* the lines read by interactive_mode, in order
    executed      \* the commands handed to execute_industrial_line, in order

ledgerVars == <<ledgerFile, backups, now, nLogged, lastLog, everTruncated,
                readOut, nTampers>>
lockVars == <<lockPath, nInodes, inodeText, inodeLock, fd, pc, pidRead, exitStatus>>

execVars == <<wsRoot, wsLink, ctx, fs, bak, tmps, res, cli, nOps>>

adjVars == <<total_agents, all_claims, phase, intersection_truth,
             minority_positions, adjudication>>

govVars == <<mode, remaining, proc, rc, lastLine, refusedAny, shell, nProcs,
             format_mode>>

walkVars == <<nfiles, readable, stack, scans, count, samples, wstatus, report>>

queryVars == <<query, classified>>
ensVars == <<backend, call, completed, successful, ens_claims, ens, estage>>
fenceVars == <<in_code_block, received, executed>>

\* The variables of the subsystems added to the first six.
moreVars == <<queryVars, ensVars, fenceVars>>

vars == <<ledgerVars, lockVars, execVars, adjVars, govVars, walkVars, moreVars>>

\* What the actions of one subsystem leave alone.
notLedger == <<lockVars, execVars, adjVars, govVars, walkVars, moreVars>>
notLock == <<ledgerVars, execVars, adjVars, govVars, walkVars, moreVars>>
notExec == <<ledgerVars, lockVars, adjVars, govVars, walkVars, moreVars>>
notAdj == <<ledgerVars, lockVars, execVars, govVars, walkVars, moreVars>>
notGovExec == <<ledgerVars, lockVars, adjVars, walkVars, moreVars>>
notWalk == <<ledgerVars, lockVars, execVars, adjVars, govVars, moreVars>>
notQuery == <<ledgerVars, lockVars, execVars, adjVars, govVars, walkVars, ensVars,
              fenceVars>>
notEns == <<ledgerVars, lockVars, execVars, adjVars, govVars, walkVars, queryVars,
            fenceVars>>
notFence == <<ledgerVars, lockVars, execVars, adjVars, govVars, walkVars, queryVars,
              ensVars>>

(***************************************************************************)
(*                      WORKSPACE LOCK (xi_cli.py)                         *)
(***************************************************************************)

\* Sessions started on the same workspace; a session's PID is its number.
NSessions == 3
Sessions == 1..NSessions
Inodes == 1..NSessions

\* os.kill(pid, 0) succeeds: the process has started and has not ended.
Alive(pid) == pid \in Sessions /\ pc[pid] \notin {"start", "done", "dead"}

\* The sessions inside the body of `with workspace_lock():`.
InLockedSection == {s \in Sessions : pc[s] = "critical"}

LockStart ==
    /\ lockPath = 0
    /\ nInodes = 0
    /\ inodeText = [i \in Inodes |-> 0]
    /\ inodeLock = [i \in Inodes |-> 0]
    /\ fd = [s \in Sessions |-> 0]
    /\ pc = [s \in Sessions |-> "start"]
    /\ pidRead = [s \in Sessions |-> 0]
    /\ exitStatus = [s \in Sessions |-> ""]

\* f = open(lock_path, 'a+'): the file is created when the path is absent.
Open(s) ==
    /\ pc[s] = "start"
    /\ IF lockPath = 0
       THEN /\ nInodes' = nInodes + 1
            /\ lockPath' = nInodes + 1
            /\ fd' = [fd EXCEPT ![s] = nInodes + 1]
       ELSE /\ fd' = [fd EXCEPT ![s] = lockPath]
            /\ UNCHANGED <<nInodes, lockPath>>
    /\ pc' = [pc EXCEPT ![s] = "flock"]
    /\ UNCHANGED <<inodeText, inodeLock, pidRead, exitStatus, notLock>>

\* fcntl.flock(f, LOCK_EX | LOCK_NB): taken (the old PID, if any, is read and
\* reported as stale), or BlockingIOError.
Flock(s) ==
    /\ pc[s] = "flock"
    /\ IF inodeLock[fd[s]] = 0
       THEN /\ inodeLock' = [inodeLock EXCEPT ![fd[s]] = s]
            /\ pc' = [pc EXCEPT ![s] = "write"]
       ELSE /\ pc' = [pc EXCEPT ![s] = "read_pid"]
            /\ UNCHANGED inodeLock
    /\ UNCHANGED <<lockPath, nInodes, inodeText, fd, pidRead, exitStatus, notLock>>

\* except BlockingIOError: pid_str = f.read().strip(); `if pid_str:` is
\* skipped when the file is empty, and control falls through to the write.
ReadPid(s) ==
    /\ pc[s] = "read_pid"
    /\ pidRead' = [pidRead EXCEPT ![s] = inodeText[fd[s]]]
    /\ pc' = [pc EXCEPT ![s] = IF inodeText[fd[s]] = 0 THEN "write" ELSE "kill"]
    /\ UNCHANGED <<lockPath, nInodes, inodeText, inodeLock, fd, exitStatus, notLock>>

\* The liveness probe with a bug: the session gives up whoever wrote the PID.
Kill_NoLivenessCheck(s) ==
    /\ pc[s] = "kill"
    /\ pc' = [pc EXCEPT ![s] = "finally"]
    /\ exitStatus' = [exitStatus EXCEPT ![s] = "BUSY_WORKSPACE"]
    /\ UNCHANGED <<lockPath, nInodes, inodeText, inodeLock, fd, pidRead, notLock>>

\* os.kill(pid, 0): a live holder makes the session sys.exit(1), which runs
\* the finally block; ProcessLookupError leads to the second flock.
Kill(s) ==
    /\ pc[s] = "kill"
    /\ IF Alive(pidRead[s])
       THEN /\ pc' = [pc EXCEPT ![s] = "finally"]
            /\ exitStatus' = [exitStatus EXCEPT ![s] = "BUSY_WORKSPACE"]
       ELSE /\ pc' = [pc EXCEPT ![s] = "reflock"]
            /\ UNCHANGED exitStatus
    /\ UNCHANGED <<lockPath, nInodes, inodeText, inodeLock, fd, pidRead, notLock>>

\* The holder is dead: fcntl.flock(f, LOCK_EX | LOCK_NB) again; on
\* BlockingIOError the session sys.exit(1)s.
Reflock(s) ==
    /\ pc[s] = "reflock"
    /\ IF inodeLock[fd[s]] = 0
       THEN /\ inodeLock' = [inodeLock EXCEPT ![fd[s]] = s]
            /\ pc' = [pc EXCEPT ![s] = "write"]
            /\ UNCHANGED exitStatus
       ELSE /\ pc' = [pc EXCEPT ![s] = "finally"]
            /\ exitStatus' = [exitStatus EXCEPT ![s] = "BUSY_WORKSPACE"]
            /\ UNCHANGED inodeLock
    /\ UNCHANGED <<lockPath, nInodes, inodeText, fd, pidRead, notLock>>

\* f.seek(0); f.truncate(); f.write(str(os.getpid())); f.flush(); yield
WritePid(s) ==
    /\ pc[s] = "write"
    /\ inodeText' = [inodeText EXCEPT ![fd[s]] = s]
    /\ pc' = [pc EXCEPT ![s] = "critical"]
    /\ UNCHANGED <<lockPath, nInodes, inodeLock, fd, pidRead, exitStatus, notLock>>

\* The body of the with statement ends.
Leave(s) ==
    /\ pc[s] = "critical"
    /\ pc' = [pc EXCEPT ![s] = "finally"]
    /\ UNCHANGED <<lockPath, nInodes, inodeText, inodeLock, fd, pidRead, exitStatus, notLock>>

\* finally: fcntl.flock(f, LOCK_UN); f.close()
UnlockClose(s) ==
    /\ pc[s] = "finally"
    /\ inodeLock' = [inodeLock EXCEPT ![fd[s]] = IF @ = s THEN 0 ELSE @]
    /\ fd' = [fd EXCEPT ![s] = 0]
    /\ pc' = [pc EXCEPT ![s] = "unlink"]
    /\ UNCHANGED <<lockPath, nInodes, inodeText, pidRead, exitStatus, notLock>>

\* finally: if lock_path.exists(): lock_path.unlink()
Unlink(s) ==
    /\ pc[s] = "unlink"
    /\ lockPath' = 0
    /\ pc' = [pc EXCEPT ![s] = "done"]
    /\ UNCHANGED <<nInodes, inodeText, inodeLock, fd, pidRead, exitStatus, notLock>>

\* The process is killed: the kernel closes f, which drops its flock; the
\* lockfile and the PID in it stay.
Crash(s) ==
    /\ pc[s] \notin {"start", "done", "dead"}
    /\ inodeLock' = [i \in Inodes |-> IF inodeLock[i] = s THEN 0 ELSE inodeLock[i]]
    /\ fd' = [fd EXCEPT ![s] = 0]
    /\ pc' = [pc EXCEPT ![s] = "dead"]
    /\ UNCHANGED <<lockPath, nInodes, inodeText, pidRead, exitStatus, notLock>>

(***************************************************************************)
(*                            AUDIT LEDGER                                 *)
(***************************************************************************)

\* The ledger keeps the most recent LedgerCap entries.  The program's value
\* is 1000 (framework.py:249); the model scales it down.
LedgerCap == 3
\* log_action calls per behaviour.
MaxAppends == 5
\* Last value of the clock.
MaxClock == 2
\* LedgerGuard.max_backups
max_backups == 10

\* What callers pass to log_action: the action and target of the entry; the
\* other keys are left to their defaults.
LogActions == {"WRITE", "PATCH"}
LogTargets == {"a.txt"}

\* The sentinel previous hash of the first entry.  A chain hash is modelled
\* as the sequence of the payloads hashed into it, so that it is injective
\* in (prev_hash, entry_data) as SHA-256 is taken to be, and GENESIS, which
\* is no digest, is the empty sequence.
GENESIS == << >>

\* None, where the code returns an index or None.
NoIndex == -1

NoFile == [exists |-> FALSE, parses |-> FALSE, data |-> << >>]
FileOf(data) == [exists |-> TRUE, parses |-> TRUE, data |-> data]

\* LedgerGuard.chain_hash: SHA256(prev_hash + ":" + entry_data)
chain_hash(entry_data, prev_hash) == Append(prev_hash, entry_data)

\* json.dumps(entry without "chain_hash", sort_keys=True): the entry's other
\* keys and their values.
EntryJson(entry) == [k \in (DOMAIN entry) \ {"chain_hash"} |-> entry[k]]

\* LedgerGuard.validate
validate(file) == file.exists /\ file.parses

\* LedgerGuard.restore: the newest backup that validates is copied over the
\* live file.  <<restored, file'>>
RECURSIVE RestoreFrom(_, _, _)
RestoreFrom(bks, i, file) ==
    IF i = 0 THEN <<FALSE, file>>
    ELSE IF validate(bks[i].content) THEN <<TRUE, bks[i].content>>
    ELSE RestoreFrom(bks, i - 1, file)

\* LedgerGuard.restore with a bug: the newest backup is copied unvalidated.
restore_Unvalidated(file, bks) ==
    IF bks = << >> THEN <<FALSE, file>> ELSE <<TRUE, bks[Len(bks)].content>>

restore(file, bks) == RestoreFrom(bks, Len(bks), file)

\* LedgerGuard.read: <<entries, file'>>; a corrupt live file is replaced
\* from backup before it is read.
read(file, bks) ==
    IF ~file.exists THEN << << >>, file >>
    ELSE IF ~validate(file)
         THEN LET r == restore(file, bks)
              IN IF r[1] THEN <<r[2].data, r[2]>> ELSE << << >>, file >>
         ELSE <<file.data, file>>

\* LedgerGuard.get_last_hash with a bug: the chain restarts at every entry.
get_last_hash_Restart(ledger) == GENESIS

\* LedgerGuard.get_last_hash, on the entries read() returned.
get_last_hash(ledger) ==
    IF ledger = << >> THEN GENESIS
    ELSE LET last == ledger[Len(ledger)]
         IN IF "chain_hash" \in DOMAIN last THEN last.chain_hash ELSE GENESIS

\* LedgerGuard.verify_chain, the loop from entry i on.
RECURSIVE VerifyFrom(_, _, _, _)
VerifyFrom(ledger, i, prev_hash, unchained) ==
    IF i > Len(ledger)
    THEN [valid |-> TRUE, entries_checked |-> Len(ledger),
          first_broken |-> NoIndex, unchained |-> unchained]
    ELSE LET entry == ledger[i]
         IN IF "chain_hash" \notin DOMAIN entry
            THEN VerifyFrom(ledger, i + 1, prev_hash, unchained + 1)
            ELSE IF entry.chain_hash # chain_hash(EntryJson(entry), prev_hash)
                 THEN [valid |-> FALSE, entries_checked |-> i,
                       first_broken |-> i - 1, unchained |-> unchained]
                 ELSE VerifyFrom(ledger, i + 1, entry.chain_hash, unchained)

\* LedgerGuard.verify_chain, on the entries read() returned.
verify_chain(ledger) ==
    IF ledger = << >>
    THEN [valid |-> TRUE, entries_checked |-> 0,
          first_broken |-> NoIndex, unchained |-> 0]
    ELSE VerifyFrom(ledger, 1, GENESIS, 0)

\* LedgerGuard.backup followed by _rotate_backups: a copy of the live file
\* named after the clock; a copy of the same name is overwritten; the oldest
\* copies beyond max_backups are removed.
backup(file, bks, t) ==
    IF ~file.exists THEN bks
    ELSE LET kept == IF bks # << >> /\ bks[Len(bks)].name = t
                     THEN SubSeq(bks, 1, Len(bks) - 1) ELSE bks
             all == Append(kept, [name |-> t, content |-> file])
         IN IF Len(all) > max_backups
            THEN SubSeq(all, Len(all) - max_backups + 1, Len(all))
            ELSE all

\* No read since the ledger files were last written.
NoRead == [done |-> FALSE, entries |-> << >>]

\* The entry log_action builds before it is chained.
full_entry(entry, timestamp) ==
    [id        |-> <<"AL", entry, timestamp>>,
     timestamp |-> timestamp,
     user      |-> "XI",
     action    |-> entry.action,
     target    |-> entry.target,
     project   |-> "XI_CORE",
     metadata  |-> << >>]

\* The list log_action hands to safe_write: the entries read, the new entry,
\* cut to the most recent LedgerCap.
Truncate(ledger) ==
    IF Len(ledger) > LedgerCap
    THEN SubSeq(ledger, Len(ledger) - LedgerCap + 1, Len(ledger))
    ELSE ledger

\* IndustrialAuditService.log_action(entry); ok is whether safe_write
\* succeeds.  On failure the temp file is dropped and, when a backup was
\* taken, the live file is restored from the newest valid backup.
log_action(entry, t, ok) ==
    LET r1       == read(ledgerFile, backups)         \* in get_last_hash
        prev     == get_last_hash(r1[1])
        core     == full_entry(entry, t)
        chained  == [k \in (DOMAIN core) \cup {"chain_hash"} |->
                        IF k = "chain_hash"
                        THEN chain_hash(EntryJson(core), prev)
                        ELSE core[k]]
        r2       == read(r1[2], backups)
        appended == Append(r2[1], chained)
        ledger   == Truncate(appended)
        bks      == backup(r2[2], backups, t)
        took     == r2[2].exists
    IN /\ nLogged < MaxAppends
       /\ nLogged' = nLogged + 1
       /\ now' = t
       /\ backups' = bks
       /\ readOut' = NoRead
       /\ UNCHANGED nTampers
       /\ IF ok
          THEN /\ ledgerFile' = FileOf(ledger)
               /\ lastLog' = IF Len(appended) > LedgerCap
                             THEN "truncated" ELSE "appended"
               /\ everTruncated' = (everTruncated \/ Len(appended) > LedgerCap)
          ELSE /\ ledgerFile' = IF took THEN restore(r2[2], bks)[2] ELSE r2[2]
               /\ lastLog' = "failed"
               /\ UNCHANGED everTruncated

LogAction ==
    \E a \in LogActions, tg \in LogTargets, t \in {now, now + 1} :
        /\ t <= MaxClock
        /\ log_action([action |-> a, target |-> tg], t, TRUE)
        /\ UNCHANGED notLedger

LogActionWriteFails ==
    \E a \in LogActions, tg \in LogTargets :
        /\ log_action([action |-> a, target |-> tg], now, FALSE)
        /\ UNCHANGED notLedger

\* A file cut short by an external actor: it exists and does not parse.
CutFile == [exists |-> TRUE, parses |-> FALSE, data |-> << >>]

\* A caller reads the ledger: LedgerGuard.read().
ReadLedger ==
    LET r == read(ledgerFile, backups)
    IN /\ ledgerFile' = r[2]
       /\ readOut' = [done |-> TRUE, entries |-> r[1]]
       /\ UNCHANGED <<backups, now, nLogged, lastLog, everTruncated, nTampers,
                      notLedger>>

\* Edits of the ledger files by an external actor, per behaviour.
MaxTampers == 2

\* An external actor truncates the live ledger file.
TruncateLedger ==
    /\ ledgerFile.exists /\ ledgerFile.parses
    /\ nTampers < MaxTampers
    /\ nTampers' = nTampers + 1
    /\ ledgerFile' = CutFile
    /\ readOut' = NoRead
    /\ UNCHANGED <<backups, now, nLogged, lastLog, everTruncated, notLedger>>

\* An external actor truncates a backup copy.
TruncateBackup ==
    \E i \in 1..Len(backups) :
        /\ validate(backups[i].content)
        /\ nTampers < MaxTampers
        /\ nTampers' = nTampers + 1
        /\ backups' = [backups EXCEPT ![i].content = CutFile]
        /\ readOut' = NoRead
        /\ UNCHANGED <<ledgerFile, now, nLogged, lastLog, everTruncated, notLedger>>

\* An entry written before entries were chained: it has no chain_hash.
LegacyEntry == full_entry([action |-> "ENACT", target |-> "UNKNOWN"], 0)

\* A digest that is the chain_hash of no entry of the ledger.
ForgedHash == chain_hash([action |-> "FORGED"], GENESIS)

\* The positions of the entries that carry a chain_hash.
Chained(ledger) == {i \in 1..Len(ledger) : "chain_hash" \in DOMAIN ledger[i]}

\* The ledger without its entry i.
RemoveAt(ledger, i) ==
    SubSeq(ledger, 1, i - 1) \o SubSeq(ledger, i + 1, Len(ledger))

\* The ledger with its entries i and j exchanged.
SwapAt(ledger, i, j) ==
    [k \in 1..Len(ledger) |->
        IF k = i THEN ledger[j] ELSE IF k = j THEN ledger[i] ELSE ledger[k]]

\* The entry without its chain_hash: what a legacy entry looks like.
Unchain(entry) == [f \in DOMAIN entry \ {"chain_hash"} |-> entry[f]]

\* What an external actor can do to the chained entries of a ledger that
\* parses, leaving every other hash as it is: change the content of an entry,
\* replace its chain_hash by another digest, remove an entry that is not the
\* last, exchange two entries.
ChainTamperings(ledger) ==
    {[ledger EXCEPT ![i].action = "FORGED"] : i \in Chained(ledger)}
    \cup {[ledger EXCEPT ![i].chain_hash = ForgedHash] : i \in Chained(ledger)}
    \cup {RemoveAt(ledger, i) : i \in Chained(ledger) \ {Len(ledger)}}
    \cup {SwapAt(ledger, p[1], p[2]) :
             p \in {q \in Chained(ledger) \X Chained(ledger) : q[1] < q[2]}}

\* Every edit of the entries: those of the chained entries, and also the
\* deletion of an entry's chain_hash, the removal of any entry that is not
\* the last and the exchange of any two entries.
Tamperings(ledger) ==
    ChainTamperings(ledger)
    \cup {[ledger EXCEPT ![i] = Unchain(ledger[i])] : i \in Chained(ledger)}
    \cup {RemoveAt(ledger, i) : i \in 1..(Len(ledger) - 1)}
    \cup {SwapAt(ledger, p[1], p[2]) :
             p \in {q \in (1..Len(ledger)) \X (1..Len(ledger)) : q[1] < q[2]}}

\* The ledger is as log_action leaves it: the chain verifies and the legacy
\* entries all come before the chained ones.
Intact(ledger) ==
    /\ verify_chain(ledger).valid
    /\ \A i \in Chained(ledger) : \A j \in i..Len(ledger) : j \in Chained(ledger)

\* An external actor edits the entries of the live ledger file, which was
\* intact.
TamperLedger ==
    /\ validate(ledgerFile)
    /\ Intact(ledgerFile.data)
    /\ nTampers < MaxTampers
    /\ nTampers' = nTampers + 1
    /\ \E ledger \in Tamperings(ledgerFile.data) : ledgerFile' = FileOf(ledger)
    /\ readOut' = NoRead
    /\ UNCHANGED <<backups, now, nLogged, lastLog, everTruncated, notLedger>>

\* The ledger before the first session: absent.
LedgerStart ==
    /\ backups = << >>
    /\ now = 0
    /\ nLogged = 0
    /\ lastLog = "none"
    /\ everTruncated = FALSE
    /\ readOut = NoRead
    /\ nTampers = 0

(***************************************************************************)
(*                  ATOMIC TOOL EXECUTOR (xi_utils.py)                     *)
(***************************************************************************)

\* A path is the sequence of its components from "/"; a location is a path
\* with no ".." and no symbolic link in it.
HOME == <<"home">>                    \* os.path.expanduser("~")
SOV  == <<"home", ".xi-io">>          \* the sovereign-state directory
WS   == <<"home", "ws">>              \* a project directory under home
WDIR == <<"home", "ws", "d">>         \* a directory in it

\* The directories of the tree; they are never removed.
Dirs == {<< >>, HOME, SOV, WS, WDIR}

\* The places where a regular file may or may not be.
WF == <<"home", "ws", "f">>
HF == <<"home", "f">>
SF == <<"home", ".xi-io", "f">>
FileSlots == {WF, HF, SF}

\* The symbolic links of the tree: <ws>/l, pointing where wsLink says, and
\* ~/.xi-io/l, pointing at the file ~/f.
WLINK == <<"home", "ws", "l">>
SLINK == <<"home", ".xi-io", "l">>
Links == {WLINK, SLINK}
LinkTarget(loc) == IF loc = WLINK THEN wsLink ELSE HF

\* Bytes, named; text is a sequence of them (every one is ASCII, so that
\* str.encode('utf-8') and the decoding of read_text keep them as they are).
CR == "CR"
LF == "LF"

\* Executor calls per behaviour.
MaxOps == 2

\* Content the callers write.
WriteContents == {<<"a">>, <<"a", CR, LF>>}
\* (find_text, replace_text) the callers patch with.
Patches == {<<(<<"a">>), (<<"b">>)>>}
\* What a failing sector holds in place of the bytes written to it.
Garbled == <<"?">>

Missing == [exists |-> FALSE, bytes |-> << >>]
Data(b) == [exists |-> TRUE, bytes |-> b]

\* File names as the callers give them: relative, absolute or "~"-prefixed.
Rel(parts) == [kind |-> "rel", parts |-> parts]
Abs(parts) == [kind |-> "abs", parts |-> parts]
Tilde(parts) == [kind |-> "tilde", parts |-> parts]

Filenames ==
    { Rel(<<"f">>), Rel(<<"l">>), Rel(<<"l", "f">>), Rel(<<"d", "..", "f">>),
      Rel(<<"..", "f">>), Rel(<<"ws", "l">>), Rel(<<".xi-io", "l">>),
      Abs(HF), Abs(SF),
      Tilde(<<"f">>), Tilde(<<".xi-io", "f">>), Tilde(<<".xi-io", "..", "f">>) }

IsPrefix(p, q) == Len(p) <= Len(q) /\ SubSeq(q, 1, Len(p)) = p
Parent(p) == IF p = << >> THEN p ELSE SubSeq(p, 1, Len(p) - 1)
Last(p) == p[Len(p)]

\* How the kernel walks a path from the location cur: ".." goes up, a
\* symbolic link is followed unless it is the last component and followLast
\* is FALSE (lstat, rename, unlink).
RECURSIVE Canon(_, _, _)
Canon(cur, rest, followLast) ==
    IF rest = << >> THEN cur
    ELSE LET c == Head(rest)
             tl == Tail(rest)
             nxt == Append(cur, c)
         IN IF c = ".." THEN Canon(Parent(cur), tl, followLast)
            ELSE IF nxt \in Links /\ (tl # << >> \/ followLast)
                 THEN Canon(<< >>, LinkTarget(nxt) \o tl, followLast)
                 ELSE Canon(nxt, tl, followLast)

\* Path.resolve(): the location a path leads to, links followed.
resolve(path) == Canon(<< >>, path, TRUE)
\* The directory entry a path names, the last component not followed.
Entry(path) == Canon(<< >>, path, FALSE)
\* Path.is_symlink()
is_symlink(path) == Entry(path) \in Links

\* The file a path leads to in the file system files, Missing when there is
\* none.
FileAt(files, path) ==
    IF resolve(path) \in FileSlots THEN files[resolve(path)] ELSE Missing
\* Path.exists()
exists(files, path) == resolve(path) \in Dirs \/ FileAt(files, path).exists

\* XIUtils._get_path
get_path(filename) ==
    CASE filename.kind = "tilde" -> HOME \o filename.parts
      [] filename.kind = "abs"   -> filename.parts
      [] OTHER                   -> wsRoot \o filename.parts

\* Path(self.working_dir) / filename, as patch_file, backup_file and the CLI
\* read branch build the path: "~" is an ordinary directory name.
join_working_dir(filename) ==
    CASE filename.kind = "tilde" -> wsRoot \o <<"~">> \o filename.parts
      [] filename.kind = "abs"   -> filename.parts
      [] OTHER                   -> wsRoot \o filename.parts

\* _is_in_bounds without the component-wise symlink detection.
is_in_bounds_NoSymlinkCheck(target_path) ==
    \/ IsPrefix(SOV, target_path)
    \/ /\ IsPrefix(wsRoot, target_path)
       /\ IsPrefix(wsRoot, resolve(target_path))

\* XIUtils._is_in_bounds, on the path _get_path returned.
is_in_bounds(target_path) ==
    \/ IsPrefix(SOV, target_path)                      \* sovereign exemption
    \/ /\ IsPrefix(wsRoot, target_path)                \* relative_to
       /\ \A n \in (Len(wsRoot) + 1)..Len(target_path) :
             ~is_symlink(SubSeq(target_path, 1, n))
       /\ IsPrefix(wsRoot, resolve(target_path))

\* XIUtils._is_safe: "safe", "blocked", or "raises" when a context manager is
\* attached, for ContextManager has no method is_quarantined.
is_safe(path) ==
    IF ~is_in_bounds(path) THEN "blocked"
    ELSE IF ctx = "none" THEN "safe"
    ELSE "raises"

\* hashlib.sha256(content).hexdigest(): injective in the content.
sha256(bytes) == <<"sha256">> \o bytes
\* The sha256 ActionReceipt.create fills in when it is given none.
ZeroHash == <<"0">>

\* Path.read_text(): text mode translates "\r\n" and "\r" to "\n".
RECURSIVE read_text(_)
read_text(bytes) ==
    IF bytes = << >> THEN << >>
    ELSE IF Head(bytes) = CR
         THEN IF Len(bytes) > 1 /\ bytes[2] = LF
              THEN <<LF>> \o read_text(SubSeq(bytes, 3, Len(bytes)))
              ELSE <<LF>> \o read_text(Tail(bytes))
         ELSE <<Head(bytes)>> \o read_text(Tail(bytes))

\* find_text in old_content
Contains(text, find_text) ==
    \E i \in 1..(Len(text) - Len(find_text) + 1) :
        SubSeq(text, i, i + Len(find_text) - 1) = find_text

\* old_content.replace(find_text, replace_text), find_text not empty
RECURSIVE replace(_, _, _)
replace(text, find_text, replace_text) ==
    IF Len(text) < Len(find_text) THEN text
    ELSE IF SubSeq(text, 1, Len(find_text)) = find_text
         THEN replace_text \o replace(SubSeq(text, Len(find_text) + 1, Len(text)),
                                      find_text, replace_text)
         ELSE <<Head(text)>> \o replace(Tail(text), find_text, replace_text)

\* What an executor call hands back.  ActionReceipt.create fills in bytes,
\* sha256, exit_code (0 if ok else 1) and policy ("allowed") when they are
\* not given; read_file returns the text itself on success (isText); raised
\* says that an exception left the call instead.  content is the bytes the
\* caller supplied to write_file, find the needle given to patch_file, fault
\* the failure the environment caused in the call.
Receipt(op, filename, ok) ==
    [op |-> op, name |-> filename, raised |-> FALSE, ok |-> ok,
     exit_code |-> IF ok THEN 0 ELSE 1, policy |-> "allowed", reason |-> "",
     bytes |-> 0, sha256 |-> ZeroHash, isText |-> FALSE, text |-> << >>,
     content |-> << >>, find |-> << >>, fault |-> "none"]

NoResult == Receipt("none", Rel(<< >>), FALSE)

Blocked(op, filename) ==
    [Receipt(op, filename, FALSE) EXCEPT
        !.exit_code = 13, !.policy = "blocked", !.reason = "POLICY_A_REJECTION"]

Raised(op, filename) == [Receipt(op, filename, FALSE) EXCEPT !.raised = TRUE]

Failed(op, filename, exit_code, reason) ==
    [Receipt(op, filename, FALSE) EXCEPT !.exit_code = exit_code, !.reason = reason]

\* XIUtils._get_file_info, in a receipt
WithInfo(receipt, file) ==
    [receipt EXCEPT !.bytes = Len(file.bytes), !.sha256 = sha256(file.bytes)]

\* HardwareGuard.verify_io that checks no hash.
verify_io_NoHash(files, path, expected_hash) == FileAt(files, path).exists

\* HardwareGuard.verify_io(path, expected_hash); expected_hash is ZeroHash
\* where the caller passes none.
verify_io(files, path, expected_hash) ==
    /\ FileAt(files, path).exists
    /\ expected_hash # ZeroHash => sha256(FileAt(files, path).bytes) = expected_hash

\* XIUtils.backup_file(filename): <working_dir>/<filename>.backup gets the
\* text of <working_dir>/<filename>; the new backups.
backup_file(files, baks, filename) ==
    LET src == join_working_dir(filename)
        dst == Append(resolve(Parent(src)), Last(src))
    IN IF FileAt(files, src).exists /\ dst \in DOMAIN baks
       THEN [baks EXCEPT ![dst] = Data(read_text(FileAt(files, src).bytes))]
       ELSE baks

\* The state an executor call leaves and what it returns.
Outcome(files, baks, temps, result) ==
    [fs |-> files, bak |-> baks, tmps |-> temps, res |-> result]

\* What the disk holds after bytes were written under the fault.
Stored(bytes, fault) == IF fault = "sector" THEN Garbled ELSE bytes

\* write_file's `except Exception` block: the temp file is removed.
write_cleanup(temps, dir) == temps

\* XIUtils.write_file(filename, content).  fault is what the environment does
\* to the call: "write" (writing the temp file raises), "replace" (os.replace
\* raises), "sector" (the target's sector garbles the bytes) or "none".
write_file(filename, content, fault) ==
    LET filepath == get_path(filename)
        safe     == is_safe(filepath)
        tmpdir   == resolve(Parent(filepath))
        baks     == IF exists(fs, filepath)
                    THEN backup_file(fs, bak, filename) ELSE bak
        files    == [fs EXCEPT ![Entry(filepath)] = Data(Stored(content, fault))]
        ok       == [Receipt("write", filename, TRUE) EXCEPT !.content = content]
    IN CASE safe = "raises"  -> Outcome(fs, bak, tmps, Raised("write", filename))
         [] safe = "blocked" -> Outcome(fs, bak, tmps, Blocked("write", filename))
         [] fault = "write"  ->
                Outcome(fs, bak, write_cleanup(tmps, tmpdir),
                        [Failed("write", filename, 1, "OSError") EXCEPT !.fault = fault])
         [] fault = "replace" ->
                Outcome(fs, baks, write_cleanup(tmps, tmpdir),
                        [Failed("write", filename, 1, "OSError") EXCEPT !.fault = fault])
         [] ~verify_io(files, filepath, sha256(content)) ->
                Outcome(files, baks, tmps,
                        [Failed("write", filename, 12, "HARDWARE_VERIFICATION_FAILED")
                            EXCEPT !.fault = fault, !.content = content])
         [] OTHER -> Outcome(files, baks, tmps, WithInfo(ok, FileAt(files, filepath)))

\* XIUtils.patch_file(filename, find_text, replace_text); the temp file is
\* made in working_dir and no handler removes it.
patch_file(filename, find_text, replace_text, fault) ==
    LET filepath == join_working_dir(filename)
        safe     == is_safe(filepath)
        old      == read_text(FileAt(fs, filepath).bytes)
        new      == replace(old, find_text, replace_text)
        baks     == backup_file(fs, bak, filename)
        files    == [fs EXCEPT ![Entry(filepath)] = Data(Stored(new, fault))]
        leaked   == tmps \cup {[dir |-> wsRoot, op |-> "patch"]}
    IN CASE safe = "raises"  ->
                Outcome(fs, bak, tmps,
                        [Raised("patch", filename) EXCEPT !.find = find_text])
         [] safe = "blocked" -> Outcome(fs, bak, tmps, Blocked("patch", filename))
         [] ~FileAt(fs, filepath).exists ->
                Outcome(fs, bak, tmps, Failed("patch", filename, 1, "FileNotFoundError"))
         [] ~Contains(old, find_text) ->
                Outcome(fs, bak, tmps,
                        [Failed("patch", filename, 14, "STALE_PLAN")
                            EXCEPT !.find = find_text])
         [] fault \in {"write", "replace"} ->
                Outcome(fs, baks, leaked,
                        [Failed("patch", filename, 1, "OSError") EXCEPT !.fault = fault])
         [] ~verify_io(files, filepath, sha256(new)) ->
                Outcome(files, baks, tmps,
                        [Failed("patch", filename, 12, "HARDWARE_VERIFICATION_FAILED")
                            EXCEPT !.fault = fault])
         [] OTHER ->
                Outcome(files, baks, tmps,
                        WithInfo(Receipt("patch", filename, TRUE), FileAt(files, filepath)))

\* XIUtils.read_file(filename): the text of the file, or a failure receipt.
read_file(filename) ==
    LET filepath == get_path(filename)
    IN CASE is_safe(filepath) = "raises"  -> Raised("read", filename)
         [] is_safe(filepath) = "blocked" -> Blocked("read", filename)
         [] ~verify_io(fs, filepath, ZeroHash) ->
                [Blocked("read", filename) EXCEPT !.reason = "HARDWARE_READ_FAILED"]
         [] OTHER ->
                [Receipt("read", filename, TRUE) EXCEPT
                    !.isText = TRUE, !.text = read_text(FileAt(fs, filepath).bytes)]

\* The read branch of execute_industrial_line in receipts mode: text that
\* does not start with "{" is reported with the info of
\* <working_dir>/<filename>, and info['length'] raises when that file is
\* missing; anything else is printed as a failure receipt.
read_report(result) ==
    LET info == FileAt(fs, join_working_dir(result.name))
    IN IF result.raised THEN result
       ELSE IF result.isText /\ ~(result.text # << >> /\ Head(result.text) = "{")
            THEN IF info.exists
                 THEN WithInfo(Receipt("read", result.name, TRUE), info)
                 ELSE Raised("read", result.name)
            ELSE IF result.isText
                 THEN Failed("read", result.name, 13, "")
                 ELSE result

\* XIUtils.delete_file with a bug: the file is backed up and unlinked before
\* the boundary is checked.
delete_file_UnlinkFirst(filename) ==
    LET filepath == get_path(filename)
        baks     == backup_file(fs, bak, filename)
        files    == [fs EXCEPT ![Entry(filepath)] = Missing]
    IN IF ~exists(fs, filepath) \/ Entry(filepath) \notin FileSlots
       THEN Outcome(fs, bak, tmps, Failed("delete", filename, 1, "FileNotFound"))
       ELSE IF is_safe(filepath) = "blocked"
            THEN Outcome(files, baks, tmps, Blocked("delete", filename))
            ELSE Outcome(files, baks, tmps, Receipt("delete", filename, TRUE))

\* XIUtils.delete_file(filename)
delete_file(filename) ==
    LET filepath == get_path(filename)
        safe     == is_safe(filepath)
        baks     == backup_file(fs, bak, filename)
        files    == [fs EXCEPT ![Entry(filepath)] = Missing]
    IN CASE safe = "raises"  -> Outcome(fs, bak, tmps, Raised("delete", filename))
         [] safe = "blocked" -> Outcome(fs, bak, tmps, Blocked("delete", filename))
         [] ~exists(fs, filepath) ->
                Outcome(fs, bak, tmps, Failed("delete", filename, 1, "FileNotFound"))
         [] OTHER -> Outcome(files, baks, tmps, Receipt("delete", filename, TRUE))

\* The exit codes of the shell commands run.
ReturnCodes == {0, 2}

\* XIUtils.run_command(command): the command runs in working_dir and ends
\* with returncode, or subprocess.run raises TimeoutExpired after 60 s
\* (expired), which the `except Exception` block turns into a receipt.  The
\* path of the receipt is the command.  With a context manager attached,
\* add_action_receipt raises in the try block and again in the handler.
run_command(returncode, expired) ==
    LET command == Rel(<< >>)
    IN IF ctx # "none" THEN Raised("run", command)
       ELSE IF expired
       THEN [Failed("run", command, 1, "TimeoutExpired") EXCEPT !.fault = "timeout"]
       ELSE [Receipt("run", command, returncode = 0) EXCEPT !.exit_code = returncode]

\* The calls that stay within the modelled tree: a call that passes the
\* boundary check neither replaces or removes a symbolic link nor makes a file
\* outside FileSlots.
Modelled(op, path) ==
    \/ is_safe(path) # "safe"
    \/ Entry(path) \in FileSlots
    \/ op \in {"patch", "delete"} /\ Entry(path) \notin Links /\ ~exists(fs, path)

Apply(outcome) ==
    /\ fs' = outcome.fs
    /\ bak' = outcome.bak
    /\ tmps' = outcome.tmps
    /\ res' = outcome.res
    /\ cli' = NoResult
    /\ nOps < MaxOps
    /\ nOps' = nOps + 1
    /\ UNCHANGED <<wsRoot, wsLink, ctx, notExec>>

WriteFile ==
    \E filename \in Filenames, content \in WriteContents,
       fault \in {"none", "write", "sector"} :
        /\ Modelled("write", get_path(filename))
        /\ Apply(write_file(filename, content, fault))

PatchFile ==
    \E filename \in Filenames, p \in Patches, fault \in {"none", "write", "sector"} :
        /\ Modelled("patch", join_working_dir(filename))
        /\ Apply(patch_file(filename, p[1], p[2], fault))

ReadFile ==
    \E filename \in Filenames :
        /\ res' = read_file(filename)
        /\ cli' = read_report(read_file(filename))
        /\ nOps < MaxOps
        /\ nOps' = nOps + 1
        /\ UNCHANGED <<wsRoot, wsLink, ctx, fs, bak, tmps, notExec>>

DeleteFile ==
    \E filename \in Filenames :
        /\ Modelled("delete", get_path(filename))
        /\ Apply(delete_file(filename))

RunCommand ==
    \E returncode \in ReturnCodes, expired \in BOOLEAN :
        Apply(Outcome(fs, bak, tmps, run_command(returncode, expired)))

\* A session on an empty tree: started in the project directory or in the
\* home directory, with or without a ContextManager.
ExecStart ==
    /\ wsRoot = WS
    /\ wsLink = WF
    /\ ctx = "none"
    /\ fs = [loc \in FileSlots |-> Missing]
    /\ bak = [loc \in FileSlots |-> Missing]
    /\ tmps = {}
    /\ res = NoResult
    /\ cli = NoResult
    /\ nOps = 0

(***************************************************************************)
(*             ENSEMBLE ADJUDICATOR (optimized_orchestrator.py)            *)
(***************************************************************************)

\* A claim text is a sequence of characters.  The 'type' and 'confidence' of
\* a claim are carried into the result and decide nothing; they are left out.
MaxAgents == 3
MaxClaims == 3

not_x == <<"n", "o", "t", " ", "x">>
Texts ==
    {<<"x">>, <<" ", "X", ".">>, <<"y">>, <<".">>, not_x, <<".", " ", "x">>,
     <<"n", "o", "t", " ", ".">>}

Whitespace == {" "}
Punctuation == {".", ",", ";", ":", "!", "?", "\"", "'", "-"}

RECURSIVE lstrip(_, _)
lstrip(s, chars) ==
    IF s # << >> /\ Head(s) \in chars THEN lstrip(Tail(s), chars) ELSE s

RECURSIVE rstrip(_, _)
rstrip(s, chars) ==
    IF s # << >> /\ s[Len(s)] \in chars
    THEN rstrip(SubSeq(s, 1, Len(s) - 1), chars)
    ELSE s

\* str.strip(chars)
strip(s, chars) == rstrip(lstrip(s, chars), chars)

\* ' '.join(s.split()): the words of s, one space between them.
RECURSIVE join_split(_)
join_split(s) ==
    LET t == lstrip(s, Whitespace)
    IN IF t = << >> THEN << >>
       ELSE IF lstrip(Tail(t), Whitespace) = << >> THEN <<Head(t)>>
       ELSE IF Tail(t)[1] \in Whitespace
            THEN <<Head(t), " ">> \o join_split(Tail(t))
            ELSE <<Head(t)>> \o join_split(Tail(t))

\* str.casefold on the characters of Texts
casefold(s) == [i \in 1..Len(s) |-> IF s[i] = "X" THEN "x" ELSE s[i]]

_normalize_claim(claim_text) ==
    strip(casefold(join_split(strip(claim_text, Whitespace))), Punctuation)

\* A threshold of half the agents, rounded up.
Threshold_HalfUp(n) == (n + 1) \div 2

\* math.floor(total_agents / 2) + 1
Threshold(n) == (n \div 2) + 1

\* The groups dict after the loop over all_claims, as the sequence of its
\* values in insertion order: [key, canonical, agents].
RECURSIVE groups_NoMerge(_)
groups_NoMerge(claims) ==
    IF claims = << >> THEN << >>
    ELSE LET prior == groups_NoMerge(SubSeq(claims, 1, Len(claims) - 1))
             c == claims[Len(claims)]
             key == _normalize_claim(c.claim)
         IN IF key = << >> THEN prior
            ELSE Append(prior, [key |-> key, canonical |-> c.claim,
                                agents |-> {c.agent}])

RECURSIVE groups(_)
groups(claims) ==
    IF claims = << >> THEN << >>
    ELSE LET prior == groups(SubSeq(claims, 1, Len(claims) - 1))
             c == claims[Len(claims)]
             key == _normalize_claim(c.claim)
         IN IF key = << >> THEN prior
            ELSE IF \E i \in 1..Len(prior) : prior[i].key = key
            THEN [i \in 1..Len(prior) |->
                    IF prior[i].key = key
                    THEN [prior[i] EXCEPT !.agents = @ \cup {c.agent}]
                    ELSE prior[i]]
            ELSE Append(prior, [key |-> key, canonical |-> c.claim,
                                agents |-> {c.agent}])

\* The entry built for a group; 'agents' is the sorted list of a set.
GroupEntry(group) ==
    [claim |-> group.canonical, frequency |-> Cardinality(group.agents),
     agents |-> group.agents]

RECURSIVE SelectEntries(_, _, _)
SelectEntries(gs, threshold, promoted) ==
    IF gs = << >> THEN << >>
    ELSE LET e == GroupEntry(Head(gs))
             rest == SelectEntries(Tail(gs), threshold, promoted)
         IN IF (e.frequency >= threshold) = promoted THEN <<e>> \o rest ELSE rest

IntersectionTruth(claims, n) == SelectEntries(groups(claims), Threshold(n), TRUE)
MinorityPositions(claims, n) == SelectEntries(groups(claims), Threshold(n), FALSE)

\* startswith('not ') and the rest equals k_any
NegatedBy(k_promoted, k_any) ==
    /\ Len(k_promoted) >= 4
    /\ SubSeq(k_promoted, 1, 4) = <<"n", "o", "t", " ">>
    /\ SubSeq(k_promoted, 5, Len(k_promoted)) = k_any

\* A contradiction check that looks at the promoted claims only.
HasContradiction_PromotedOnly(intersection, minority) ==
    LET promoted_keys == {_normalize_claim(intersection[i].claim) :
                              i \in 1..Len(intersection)}
    IN \E k_promoted \in promoted_keys : \E k_any \in promoted_keys :
          \/ k_any = <<"n", "o", "t", " ">> \o k_promoted
          \/ NegatedBy(k_promoted, k_any)

HasContradiction(intersection, minority) ==
    LET promoted_keys == {_normalize_claim(intersection[i].claim) :
                              i \in 1..Len(intersection)}
        both == intersection \o minority
        all_keys == {_normalize_claim(both[i].claim) : i \in 1..Len(both)}
    IN \E k_promoted \in promoted_keys : \E k_any \in all_keys :
          \/ k_any = <<"n", "o", "t", " ">> \o k_promoted
          \/ NegatedBy(k_promoted, k_any)

NoAdjudication == [status |-> "NONE"]

_adjudicate_claims(claims, n) ==
    LET intersection == IntersectionTruth(claims, n)
        minority == MinorityPositions(claims, n)
        contradiction == HasContradiction(intersection, minority)
    IN IF intersection = << >> \/ contradiction
       THEN [status |-> "HALT",
             reason |-> IF intersection = << >>
                        THEN "Equilibrium not reached (OH001)"
                        ELSE "Contradictory claims in intersection",
             disagreements |-> IF intersection = << >> THEN minority
                               ELSE intersection,
             raw_candidates |-> claims,
             threshold |-> Threshold(n),
             total_agents |-> n]
       ELSE [status |-> "ADJUDICATED",
             intersection_truth |-> intersection,
             minority_positions |-> minority,
             agents_considered |-> n,
             threshold |-> Threshold(n)]

\* execute_ensemble, step 2: the claims extracted from the response of a
\* successful agent are appended, agent after agent.
ExtractClaim ==
    /\ phase = "extract"
    /\ Len(all_claims) < MaxClaims
    /\ \E a \in 1..total_agents, t \in Texts :
          /\ IF all_claims = << >> THEN TRUE
             ELSE all_claims[Len(all_claims)].agent <= a
          /\ all_claims' = Append(all_claims, [claim |-> t, agent |-> a])
    /\ UNCHANGED <<total_agents, phase, intersection_truth,
                   minority_positions, adjudication, notAdj>>

\* execute_ensemble, steps 3-5, taken when some claim was extracted.
Adjudicate ==
    /\ phase = "extract"
    /\ all_claims # << >>
    /\ intersection_truth' = IntersectionTruth(all_claims, total_agents)
    /\ minority_positions' = MinorityPositions(all_claims, total_agents)
    /\ adjudication' = _adjudicate_claims(all_claims, total_agents)
    /\ phase' = "adjudicated"
    /\ UNCHANGED <<all_claims, total_agents, notAdj>>

\* The next execute_ensemble call, with its own number of successful agents.
NextEnsemble ==
    /\ phase = "adjudicated"
    /\ total_agents' \in 1..MaxAgents
    /\ all_claims' = << >>
    /\ intersection_truth' = << >>
    /\ minority_positions' = << >>
    /\ adjudication' = NoAdjudication
    /\ phase' = "extract"
    /\ UNCHANGED notAdj

AdjStart ==
    /\ total_agents = MaxAgents
    /\ all_claims = << >>
    /\ intersection_truth = << >>
    /\ minority_positions = << >>
    /\ adjudication = NoAdjudication
    /\ phase = "extract"

(***************************************************************************)
(*                      MODE GOVERNOR (xi_cli.py)                          *)
(***************************************************************************)

\* A process runs one command string in one mode, on the XIUtils of
\* load_state (a ContextManager attached).
MaxChain == 2
MaxProcs == 2

Modes == {"PLAN", "ACT", "DEBUG", "CHAT", "REVIEW"}

\* GOVERNOR_RULES[mode]["forbidden"]
Forbidden(m) ==
    CASE m = "PLAN"  -> {"write", "create", "edit", "patch", "delete", "run",
                         "git", "purge", "archive"}
      [] m = "DEBUG" -> {"write", "create", "edit", "patch", "delete", "purge",
                         "run", "git", "archive"}
      [] OTHER       -> {}

\* GOVERNOR_RULES[mode]["message"], by the mode it belongs to
RefusalMessage(m) ==
    IF m = "PLAN" THEN "Action prohibited in PLAN mode"
    ELSE "not available in DEBUG mode"

\* The commands a line can hold; chat_fallback is a line of natural language.
DirectCmds == {"read", "write", "patch", "delete", "run", "format", "design"}
\* The words a write directive holds after the file name.
Directives == {<<"a">>, <<"*">>, <<"1000">>, <<"*", "force">>}

\* The runaway guard of the write/create branch: the line holds one of the
\* keywords and not the word force.
runaway_guard(text) ==
    /\ \E i \in 1..Len(text) : text[i] \in {"5000", "1000", "10000", "files", "*"}
    /\ \A i \in 1..Len(text) : text[i] # "force"

\* ' '.join(words[2:]): the content a write directive gives.
RECURSIVE join_words(_)
join_words(words) ==
    IF words = << >> THEN << >>
    ELSE IF Len(words) = 1 THEN <<words[1]>>
    ELSE <<words[1], " ">> \o join_words(Tail(words))

\* A line: the command, for chat_fallback the command line the model
\* answered with ("none" when its answer holds no command), and the words
\* that follow the file name.
Lines ==
    [cmd : DirectCmds \ {"write"}, reply : {"none"}, text : {<<"a">>}]
        \cup [cmd : {"write"}, reply : {"none"}, text : Directives]
        \cup [cmd : {"chat_fallback"}, reply : DirectCmds \cup {"none"},
              text : {<<"a">>}]

\* The file the commands of the model name.
GovFile == Rel(<<"f">>)

\* XIUtils.format_code on text: trailing whitespace of every line removed, a
\* newline added at the end when there is none.
RECURSIVE rstrip_lines(_)
rstrip_lines(text) ==
    IF text = << >> THEN << >>
    ELSE LET init == rstrip_lines(SubSeq(text, 1, Len(text) - 1))
             c == text[Len(text)]
         IN IF c = LF THEN Append(rstrip(init, {" ", CR}), LF)
            ELSE Append(init, c)

format_text(text) ==
    LET formatted == rstrip(rstrip_lines(text), {" ", CR})
    IN IF formatted # << >> /\ formatted[Len(formatted)] = LF
       THEN formatted
       ELSE Append(formatted, LF)

\* XIUtils.format_code(filename): the files after it.
format_code(files, filename) ==
    LET filepath == join_working_dir(filename)
    IN IF ~FileAt(files, filepath).exists THEN files
       ELSE [files EXCEPT ![resolve(filepath)] =
                Data(format_text(read_text(FileAt(files, filepath).bytes)))]

\* What running one line leaves: the executor's outcome, the shell commands
\* run, how the line ended ("returned", "PermissionError", "SystemExit") and
\* with which exit code, whether the governor refused it, and whether an
\* executor operation was started.
LineResult(outcome, shellRuns, ended, code, refused, invoked) ==
    [outcome |-> outcome, shell |-> shellRuns, ended |-> ended, code |-> code,
     refused |-> refused, invoked |-> invoked]

\* The branch of execute_industrial_line for a command the governor let pass.
Branch(cmd, text) ==
    LET same == Outcome(fs, bak, tmps, res)
    IN CASE cmd = "read" ->
                LineResult(Outcome(fs, bak, tmps, read_file(GovFile)),
                           shell, "returned", 0, FALSE, TRUE)
         [] cmd = "write" /\ runaway_guard(text) ->
                IF format_mode = "receipts"
                THEN LineResult(same, shell, "SystemExit", 16, FALSE, FALSE)
                ELSE LineResult(same, shell, "returned", 0, FALSE, FALSE)
         [] cmd \in {"write", "design"} ->
                LineResult(write_file(GovFile, join_words(text), "none"),
                           shell, "returned", 0, FALSE, TRUE)
         [] cmd = "patch" ->
                LineResult(patch_file(GovFile, <<"b">>, <<"a">>, "none"),
                           shell, "returned", 0, FALSE, TRUE)
         [] cmd = "delete" ->
                LineResult(delete_file(GovFile), shell, "returned", 0, FALSE, TRUE)
         [] cmd = "run" ->
                LineResult(same, shell + 1, "returned", 0, FALSE, TRUE)
         [] cmd = "format" ->
                LineResult(Outcome(format_code(fs, GovFile), bak, tmps, res),
                           shell, "returned", 0, FALSE, TRUE)
         [] OTHER -> LineResult(same, shell, "returned", 0, FALSE, FALSE)

\* execute_industrial_line for a command word: Governor Enforcement, then the
\* branch of the command.
Governed(cmd, text) ==
    LET same == Outcome(fs, bak, tmps, res)
    IN IF cmd \in Forbidden(mode)
       THEN IF mode = "PLAN"
            THEN LineResult(same, shell, "PermissionError", 0, TRUE, FALSE)
            ELSE LineResult(same, shell, "SystemExit", 13, TRUE, FALSE)
       ELSE Branch(cmd, text)

\* execute_industrial_line(line): a line of natural language is unknown in
\* receipts mode; elsewhere it goes to one model, and a recognized command in
\* the answer is run by a nested execute_industrial_line in the same mode,
\* whose exceptions the `except Exception` of the outer call prints.
execute_industrial_line(line) ==
    LET same == Outcome(fs, bak, tmps, res)
    IN IF line.cmd # "chat_fallback" THEN Governed(line.cmd, line.text)
       ELSE IF format_mode = "receipts"
       THEN LineResult(same, shell, "SystemExit", 1, FALSE, FALSE)
       ELSE IF line.reply = "none"
       THEN LineResult(same, shell, "returned", 0, FALSE, FALSE)
       ELSE LET nested == Governed(line.reply, line.text)
            IN IF nested.ended = "PermissionError"
               THEN [nested EXCEPT !.ended = "returned"]
               ELSE nested

\* No line was run yet.
NoLine == [cmd |-> "none", origin |-> "operator", refused |-> FALSE,
           invoked |-> FALSE, message |-> "", changed |-> FALSE,
           text |-> << >>]

\* main / cmd_modal_execution: a process starts on a command string.
StartProcess ==
    /\ proc # "running"
    /\ nProcs < MaxProcs
    /\ nProcs' = nProcs + 1
    /\ mode' \in Modes
    /\ format_mode' \in {"chat", "receipts"}
    /\ remaining' \in 1..MaxChain
    /\ proc' = "running"
    /\ rc' = 0
    /\ lastLine' = NoLine
    /\ refusedAny' = FALSE
    /\ UNCHANGED <<shell, execVars, notGovExec>>

\* execute_command_string: the next command of the chain; an Exception of the
\* line is printed and the chain goes on, SystemExit ends the process.
RunLine ==
    /\ proc = "running"
    /\ remaining > 0
    /\ \E line \in Lines :
       LET r == execute_industrial_line(line)
       IN /\ fs' = r.outcome.fs
          /\ bak' = r.outcome.bak
          /\ tmps' = r.outcome.tmps
          /\ res' = r.outcome.res
          /\ shell' = r.shell
          /\ lastLine' = [cmd |-> IF line.cmd = "chat_fallback" THEN line.reply
                                  ELSE line.cmd,
                      origin |-> IF line.cmd = "chat_fallback" THEN "model"
                                 ELSE "operator",
                      refused |-> r.refused,
                      invoked |-> r.invoked,
                      message |-> IF r.refused THEN RefusalMessage(mode) ELSE "",
                      changed |-> r.outcome.fs # fs \/ r.shell # shell,
                      text |-> line.text]
          /\ refusedAny' = (refusedAny \/ r.refused)
          /\ IF r.ended = "SystemExit"
             THEN proc' = "exited" /\ rc' = r.code /\ remaining' = 0
             ELSE proc' = "running" /\ rc' = rc /\ remaining' = remaining - 1
    /\ UNCHANGED <<mode, format_mode, nProcs, cli, nOps, wsRoot, wsLink, ctx,
                   notGovExec>>

\* The chain is done: main returns 0.
ExitProcess ==
    /\ proc = "running"
    /\ remaining = 0
    /\ proc' = "exited"
    /\ rc' = 0
    /\ UNCHANGED <<mode, format_mode, remaining, lastLine, refusedAny, shell, nProcs,
                   execVars, notGovExec>>

GovStart ==
    /\ mode = "CHAT"
    /\ remaining = 0
    /\ proc = "idle"
    /\ rc = 0
    /\ lastLine = NoLine
    /\ format_mode = "chat"
    /\ refusedAny = FALSE
    /\ shell = 0
    /\ nProcs = 0

(***************************************************************************)
(*               GOVERNED WALKER (xi_cli.py, CS003/CS004)                  *)
(***************************************************************************)

\* The cap on counted files (50000 in the code) and the most matching files
\* a directory of the model holds.
max_files == 4
FilesPerDir == 3

\* The tree under root_dir: root holds a and b, a holds c, b holds .git;
\* root also holds l, a symbolic link to a directory, and m, a directory on
\* which another filesystem is mounted.
WalkDirs == {"root", "a", "b", "c", ".git", "l", "m"}
Subdirs(d) ==
    CASE d = "root" -> {"a", "b", "l", "m"}
      [] d = "a"    -> {"c"}
      [] d = "b"    -> {".git"}
      [] OTHER      -> {}

\* entry.is_dir(follow_symlinks=False), for the entries that lead to a
\* directory
is_dir(d) == d # "l"

\* entry.stat().st_dev == root_dev
SameDevice(d) == d # "m"

\* IGNORES, as far as the tree has them
IGNORES == {".git"}

\* The directories reachable from root_dir through readable directories
\* without entering a pruned directory, a symbolic link or another device.
RECURSIVE ReachedWithin(_, _)
ReachedWithin(S, n) ==
    IF n = 0 THEN S
    ELSE ReachedWithin(
             S \cup {e \in WalkDirs \ IGNORES :
                        /\ e \notin {"l", "m"}
                        /\ \E d \in S : readable[d] /\ e \in Subdirs(d)},
             n - 1)
Reached == ReachedWithin({"root"}, Cardinality(WalkDirs))

\* The directories the walk counts in: reached, and os.scandir works.
Walked == {d \in Reached : readable[d]}

RECURSIVE SumFiles(_)
SumFiles(ds) ==
    IF ds = {} THEN 0
    ELSE LET d == CHOOSE x \in ds : TRUE IN nfiles[d] + SumFiles(ds \ {d})

\* The sequences that hold every element of a set once: the orders in which
\* os.scandir may yield the subdirectories.
Orders(S) ==
    {q \in [1..Cardinality(S) -> S] : \A i, j \in 1..Cardinality(S) : q[i] = q[j] => i = j}

\* The subdirectories the scan of current pushes, with a bug: symbolic links
\* to directories are followed.
Pushed_FollowLinks(current) ==
    {d \in Subdirs(current) : d \notin IGNORES /\ SameDevice(d)}

\* The subdirectories the scan of current pushes on the stack.
Pushed(current) ==
    {d \in Subdirs(current) : is_dir(d) /\ d \notin IGNORES /\ SameDevice(d)}

\* _governed_recursive_count up to the loop: os.stat(root_dir) may fail.
StartWalk ==
    /\ wstatus = "idle"
    /\ \E stat_ok \in BOOLEAN :
          IF stat_ok
          THEN wstatus' = "walking" /\ stack' = <<"root">>
          ELSE wstatus' = "OS_ERROR" /\ stack' = << >>
    /\ UNCHANGED <<nfiles, readable, scans, count, samples, report, notWalk>>

\* One turn of `while stack`: pop a directory, test the two guards, scan the
\* directory (every matching file is counted, every subdirectory that is not
\* ignored is pushed); the loop ending returns OK.
WalkDirectory ==
    /\ wstatus = "walking"
    /\ stack # << >>
    /\ LET current == stack[Len(stack)]
           popped == SubSeq(stack, 1, Len(stack) - 1)
       IN \E timed_out \in BOOLEAN, order \in Orders(Pushed(current)) :
             IF timed_out
             THEN /\ wstatus' = "TIMEOUT"
                  /\ stack' = popped
                  /\ UNCHANGED <<count, samples, scans>>
             ELSE IF count >= max_files
             THEN /\ wstatus' = "MAX_REACHED"
                  /\ stack' = popped
                  /\ UNCHANGED <<count, samples, scans>>
             ELSE IF ~readable[current]
             THEN /\ stack' = popped
                  /\ scans' = [scans EXCEPT ![current] = @ + 1]
                  /\ wstatus' = IF popped = << >> THEN "OK" ELSE "walking"
                  /\ UNCHANGED <<count, samples>>
             ELSE /\ count' = count + nfiles[current]
                  /\ scans' = [scans EXCEPT ![current] = @ + 1]
                  /\ samples' = IF count + nfiles[current] < 5
                                THEN count + nfiles[current] ELSE 5
                  /\ stack' = popped \o order
                  /\ wstatus' = IF popped \o order = << >> THEN "OK" ELSE "walking"
    /\ UNCHANGED <<nfiles, readable, report, notWalk>>

\* The COMPUTED_STATE branch of execute_industrial_line after the walk: a
\* halt message for TIMEOUT and MAX_REACHED, the count otherwise.
ReportCount ==
    /\ wstatus \in {"OK", "MAX_REACHED", "TIMEOUT", "OS_ERROR"}
    /\ report = "none"
    /\ report' = IF wstatus \in {"TIMEOUT", "MAX_REACHED"}
                 THEN "OP-11 HALT" ELSE "Count"
    /\ UNCHANGED <<nfiles, readable, stack, scans, count, samples, wstatus, notWalk>>

WalkStart ==
    /\ nfiles = [d \in WalkDirs |-> 0]
    /\ readable = [d \in WalkDirs |-> TRUE]
    /\ stack = << >>
    /\ scans = [d \in WalkDirs |-> 0]
    /\ count = 0
    /\ samples = 0
    /\ wstatus = "idle"
    /\ report = "none"

(***************************************************************************)
(*                     QUERY CLASSIFIER (xi_cli.py)                        *)
(***************************************************************************)

\* Phrases per utterance.
MaxPhrases == 3

\* What operators type, phrase by phrase; a text is the sequence of its
\* characters.
Phrases ==
    {<<"H", "o", "w", " ", "m", "a", "n", "y">>, <<"c", "o", "u", "n", "t">>,
     <<"s", "h", "o", "w", " ", "m", "a", "n", "y">>,
     <<"i", "g", "n", "o", "r", "e">>, <<"p", "y", "t", "h", "o", "n">>,
     <<".", "t", "x", "t">>, <<"u", "n", "d", "e", "r">>,
     <<"w", "h", "e", "r", "e", " ", "a", "m", " ", "i", "?">>,
     <<"f", "i", "l", "e", "s">>}

_RECURSIVE_KEYWORDS ==
    {<<"r", "e", "c", "u", "r", "s", "i", "v", "e", "l", "y">>,
     <<"r", "e", "c", "u", "r", "s", "i", "v", "e">>,
     <<"a", "l", "l", " ", "s", "u", "b", "f", "o", "l", "d", "e", "r", "s">>,
     <<"a", "l", "l", " ", "s", "u", "b", "d", "i", "r", "e", "c", "t", "o", "r", "i", "e", "s">>,
     <<"s", "u", "b", "f", "o", "l", "d", "e", "r", "s">>,
     <<"s", "u", "b", "-", "f", "o", "l", "d", "e", "r", "s">>,
     <<"s", "u", "b", "d", "i", "r", "e", "c", "t", "o", "r", "i", "e", "s">>,
     <<"s", "u", "b", "-", "d", "i", "r", "e", "c", "t", "o", "r", "i", "e", "s">>,
     <<"t", "r", "e", "e">>, <<"u", "n", "d", "e", "r">>,
     <<"a", "l", "l", " ", "l", "e", "v", "e", "l", "s">>}

_EXTENSION_ALIASES ==
    {[k |-> <<"p", "y", "t", "h", "o", "n">>, exts |-> {<<".", "p", "y">>}],
     [k |-> <<"p", "y">>, exts |-> {<<".", "p", "y">>}],
     [k |-> <<".", "p", "y">>, exts |-> {<<".", "p", "y">>}],
     [k |-> <<"j", "a", "v", "a", "s", "c", "r", "i", "p", "t">>, exts |-> {<<".", "j", "s">>, <<".", "j", "s", "x">>}],
     [k |-> <<"j", "s">>, exts |-> {<<".", "j", "s">>, <<".", "j", "s", "x">>}],
     [k |-> <<".", "j", "s">>, exts |-> {<<".", "j", "s">>}],
     [k |-> <<"t", "y", "p", "e", "s", "c", "r", "i", "p", "t">>, exts |-> {<<".", "t", "s">>, <<".", "t", "s", "x">>}],
     [k |-> <<"t", "s">>, exts |-> {<<".", "t", "s">>, <<".", "t", "s", "x">>}],
     [k |-> <<".", "t", "s">>, exts |-> {<<".", "t", "s">>}],
     [k |-> <<"m", "a", "r", "k", "d", "o", "w", "n">>, exts |-> {<<".", "m", "d">>, <<".", "m", "a", "r", "k", "d", "o", "w", "n">>}],
     [k |-> <<"m", "d">>, exts |-> {<<".", "m", "d">>, <<".", "m", "a", "r", "k", "d", "o", "w", "n">>}],
     [k |-> <<".", "m", "d">>, exts |-> {<<".", "m", "d">>}],
     [k |-> <<"j", "s", "o", "n">>, exts |-> {<<".", "j", "s", "o", "n">>}],
     [k |-> <<"c", "s", "s">>, exts |-> {<<".", "c", "s", "s">>}],
     [k |-> <<"h", "t", "m", "l">>, exts |-> {<<".", "h", "t", "m", "l">>}],
     [k |-> <<"h", "i", "d", "d", "e", "n">>, exts |-> {<<"_", "_", "H", "I", "D", "D", "E", "N", "_", "_">>}]}

ExclusionPhrases == {<<"e", "x", "c", "l", "u", "d", "i", "n", "g">>,
 <<"g", "i", "t", "i", "g", "n", "o", "r", "e">>,
 <<"i", "g", "n", "o", "r", "e">>}

_static_phrases ==
    {
     <<"w", "o", "r", "k", "i", "n", "g", " ", "d", "i", "r", "e", "c", "t", "o", "r", "y">>,
     <<"c", "u", "r", "r", "e", "n", "t", " ", "d", "i", "r", "e", "c", "t", "o", "r", "y">>,
     <<"w", "h", "e", "r", "e", " ", "a", "m", " ", "i">>,
     <<"f", "r", "a", "m", "e", "w", "o", "r", "k", " ", "v", "e", "r", "s", "i", "o", "n">>,
     <<"s", "y", "s", "t", "e", "m", " ", "v", "e", "r", "s", "i", "o", "n">>,
     <<"a", "c", "t", "i", "v", "e", "_", "m", "o", "d", "e", "l">>,
     <<"a", "c", "t", "i", "v", "e", " ", "m", "o", "d", "e", "l">>,
     <<"w", "h", "a", "t", " ", "v", "e", "r", "s", "i", "o", "n">>,
     <<"w", "h", "i", "c", "h", " ", "v", "e", "r", "s", "i", "o", "n">>,
     <<"s", "h", "o", "w", " ", "v", "e", "r", "s", "i", "o", "n">>}

\* str.lower on the characters of Phrases
lower_text(s) == [i \in 1..Len(s) |-> IF s[i] = "H" THEN "h" ELSE s[i]]

\* [a-z0-9] and \w on lower-case text
AlNums ==
    {"a", "b", "c", "d", "e", "f", "g", "h", "i", "j", "k", "l", "m", "n",
     "o", "p", "q", "r", "s", "t", "u", "v", "w", "x", "y", "z",
     "0", "1", "2", "3", "4", "5", "6", "7", "8", "9"}
WordChars == AlNums \cup {"_"}

\* \b at the gap before position i of s
Boundary(s, i) ==
    (i > 1 /\ i - 1 <= Len(s) /\ s[i - 1] \in WordChars)
        # (i <= Len(s) /\ s[i] \in WordChars)

\* re.search(rf"\b{re.escape(k)}\b", s)
SearchWord(k, s) ==
    \E i \in 1..(Len(s) - Len(k) + 1) :
        /\ SubSeq(s, i, i + Len(k) - 1) = k
        /\ Boundary(s, i)
        /\ Boundary(s, i + Len(k))

\* The length of the run of [a-z0-9] that starts at position i of s.
RECURSIVE RunFrom(_, _)
RunFrom(s, i) ==
    IF i <= Len(s) /\ s[i] \in AlNums THEN 1 + RunFrom(s, i + 1) ELSE 0

\* re.findall(r"\.[a-z0-9]{1,6}\b", s): a dot, then a run of one to six
\* characters that ends at a word boundary.
ExplicitExtensions(s) ==
    {SubSeq(s, i, i + RunFrom(s, i + 1)) :
        i \in {j \in 1..Len(s) :
                 /\ s[j] = "."
                 /\ RunFrom(s, j + 1) \in 1..6
                 /\ Boundary(s, j + 1 + RunFrom(s, j + 1))}}

\* _extract_extensions(command), as a set (the code sorts it into a tuple)
_extract_extensions(command) ==
    LET c == lower_text(command)
    IN ExplicitExtensions(c)
       \cup UNION {a.exts : a \in {b \in _EXTENSION_ALIASES : SearchWord(b.k, c)}}

NoMeta == [scope |-> "none", exts |-> {}, op |-> "none", reason |-> "none"]

\* text.lower().strip().strip('?!.')
Normalized(text) == strip(strip(lower_text(text), Whitespace), {"?", "!", "."})

\* classify_query with a bug: the factual phrases are looked up first.
classify_query_FactsFirst(text) ==
    LET lower == Normalized(text)
        is_count == SearchWord(<<"h", "o", "w", " ", "m", "a", "n", "y">>, lower) \/ Contains(lower, <<"c", "o", "u", "n", "t">>)
        is_recursive == \E k \in _RECURSIVE_KEYWORDS : Contains(lower, k)
        has_exclusion == \E k \in ExclusionPhrases : Contains(lower, k)
        exts == _extract_extensions(lower)
        meta == [NoMeta EXCEPT !.scope = IF is_recursive THEN "recursive" ELSE "local",
                               !.exts = exts, !.op = "count_files"]
    IN IF \E q \in _static_phrases : Contains(lower, q)
       THEN <<"STATIC_STATE", NoMeta>>
       ELSE IF is_count
            THEN IF has_exclusion
                 THEN <<"REASONING", [NoMeta EXCEPT !.reason = "complex_intent_exclusions"]>>
                 ELSE IF exts # {} \/ is_recursive
                      THEN <<"COMPUTED_STATE", meta>>
                      ELSE <<"STATIC_STATE", meta>>
            ELSE <<"REASONING", NoMeta>>

\* classify_query(text): <<QueryClass, metadata>>
classify_query(text) ==
    LET lower == Normalized(text)
        is_count == SearchWord(<<"h", "o", "w", " ", "m", "a", "n", "y">>, lower) \/ Contains(lower, <<"c", "o", "u", "n", "t">>)
        is_recursive == \E k \in _RECURSIVE_KEYWORDS : Contains(lower, k)
        has_exclusion == \E k \in ExclusionPhrases : Contains(lower, k)
        exts == _extract_extensions(lower)
        meta == [NoMeta EXCEPT !.scope = IF is_recursive THEN "recursive" ELSE "local",
                               !.exts = exts, !.op = "count_files"]
    IN IF is_count
       THEN IF has_exclusion
            THEN <<"REASONING", [NoMeta EXCEPT !.reason = "complex_intent_exclusions"]>>
            ELSE IF exts # {} \/ is_recursive
                 THEN <<"COMPUTED_STATE", meta>>
                 ELSE <<"STATIC_STATE", meta>>
       ELSE IF \E q \in _static_phrases : Contains(lower, q)
            THEN <<"STATIC_STATE", NoMeta>>
            ELSE <<"REASONING", NoMeta>>

\* The phrases of an utterance, joined by single spaces.
RECURSIVE Say(_)
Say(phrases) ==
    IF phrases = << >> THEN << >>
    ELSE IF Len(phrases) = 1 THEN phrases[1]
    ELSE phrases[1] \o <<" ">> \o Say(Tail(phrases))

Utterances ==
    UNION {{Say(p) : p \in [1..n -> Phrases]} : n \in 1..MaxPhrases}

Unclassified == <<"none", NoMeta>>

\* The sentinel classifies the utterance the operator typed.
ClassifyQuery ==
    /\ query # << >>
    /\ classified = Unclassified
    /\ classified' = classify_query(query)
    /\ UNCHANGED <<query, notQuery>>

QueryStart ==
    /\ query = << >>
    /\ classified = Unclassified


(***************************************************************************)
(*            ENSEMBLE FAN-OUT (optimized_orchestrator.py)                 *)
(***************************************************************************)

\* len(models); the default list holds three models.
EnsembleSize == 3

Models == 1..EnsembleSize

\* What the extraction model returns for a response, once parsed: a list of
\* claim texts.
ClaimLists == {<< <<"x">> >>, << <<" ", "X", ".">> >>, << not_x >>}

\* How the backend behaves for a model during one execute_ensemble call:
\* ollama.generate in run_model returns ("ok"), raises ("error") or never
\* returns ("silent"); for a response, ollama.generate in _extract_claims
\* does the same, and returns the claims when it returns.
Backends ==
    {[gen |-> "silent", ext |-> "none", claims |-> << >>],
     [gen |-> "error", ext |-> "none", claims |-> << >>],
     [gen |-> "ok", ext |-> "silent", claims |-> << >>],
     [gen |-> "ok", ext |-> "error", claims |-> << >>]}
    \cup {[gen |-> "ok", ext |-> "ok", claims |-> cl] : cl \in ClaimLists}

\* The successful agents taken in the order their calls completed (what
\* concurrent.futures.as_completed would give, not executor.map).
Successful_AsCompleted(calls, m) ==
    LET ok == {i \in 1..Len(completed) : calls[completed[i]] = "ok"}
        nth[k \in 0..Len(completed)] ==
            IF k = 0 THEN << >>
            ELSE IF k \in ok THEN Append(nth[k - 1], completed[k]) ELSE nth[k - 1]
    IN nth[Len(completed)]

\* [r for r in results if r['success']], results being in the order of
\* models: the models whose call succeeded, in that order.
RECURSIVE Successful(_, _)
Successful(calls, m) ==
    IF m > EnsembleSize THEN << >>
    ELSE IF calls[m] = "ok" THEN <<m>> \o Successful(calls, m + 1)
    ELSE Successful(calls, m + 1)

\* _extract_claims(r['response'], r['model']): the validated claims, each
\* tagged with the agent.
_extract_claims(m) ==
    IF backend[m].ext = "ok"
    THEN [i \in 1..Len(backend[m].claims) |->
            [claim |-> backend[m].claims[i], agent |-> m]]
    ELSE << >>

\* execute_ensemble is called: every model is submitted to the pool, which
\* has a worker for each.
StartEnsemble ==
    /\ estage = "idle"
    /\ estage' = "generating"
    /\ call' = [m \in Models |-> "running"]
    /\ UNCHANGED <<backend, completed, successful, ens_claims, ens, notEns>>

\* ollama.generate returns for model m: run_model returns success True.
ModelResponds(m) ==
    /\ estage = "generating"
    /\ call[m] = "running"
    /\ backend[m].gen = "ok"
    /\ call' = [call EXCEPT ![m] = "ok"]
    /\ completed' = Append(completed, m)
    /\ UNCHANGED <<backend, estage, successful, ens_claims, ens, notEns>>

\* ollama.generate raises for model m: run_model returns success False.
ModelFails(m) ==
    /\ estage = "generating"
    /\ call[m] = "running"
    /\ backend[m].gen = "error"
    /\ call' = [call EXCEPT ![m] = "error"]
    /\ completed' = Append(completed, m)
    /\ UNCHANGED <<backend, estage, successful, ens_claims, ens, notEns>>

\* list(executor.map(run_model, models)) returns once every call has returned
\* and the pool is shut down; with no successful result the function returns.
Collect ==
    /\ estage = "generating"
    /\ \A m \in Models : call[m] \in {"ok", "error"}
    /\ LET ok == Successful(call, 1)
       IN /\ successful' = ok
          /\ IF ok = << >>
             THEN /\ ens' = [status |-> "HALT", reason |-> "All models failed"]
                  /\ estage' = "returned"
             ELSE /\ estage' = "extracting"
                  /\ UNCHANGED ens
    /\ UNCHANGED <<backend, call, completed, ens_claims, notEns>>

\* Step 2, one pass of the loop: _extract_claims returns for the next
\* successful agent (with [] when ollama.generate raised).
ExtractAgent ==
    /\ estage = "extracting"
    /\ successful # << >>
    /\ backend[Head(successful)].ext # "silent"
    /\ ens_claims' = ens_claims \o _extract_claims(Head(successful))
    /\ successful' = Tail(successful)
    /\ UNCHANGED <<backend, call, completed, estage, ens, notEns>>

\* The loop is over: the function returns the adjudication, or halts when
\* no claim was extracted.
ReturnEnsemble ==
    /\ estage = "extracting"
    /\ successful = << >>
    /\ estage' = "returned"
    /\ ens' = IF ens_claims = << >>
              THEN [status |-> "HALT",
                    reason |-> "Structured claim extraction failed for all agents"]
              ELSE _adjudicate_claims(ens_claims,
                                      Cardinality({m \in Models : call[m] = "ok"}))
    /\ UNCHANGED <<backend, call, completed, successful, ens_claims, notEns>>

EnsStart ==
    /\ backend = [m \in Models |-> [gen |-> "ok", ext |-> "ok", claims |-> << <<"x">> >>]]
    /\ call = [m \in Models |-> "queued"]
    /\ completed = << >>
    /\ successful = << >>
    /\ ens_claims = << >>
    /\ ens = NoAdjudication
    /\ estage = "idle"

(***************************************************************************)
(*                      CHAINED-COMMAND EXECUTOR                           *)
(*  xi_cli.py: execute_command_string, called by interactive_mode with    *)
(*  the in_code_block value the previous call returned.  A line is a      *)
(*  sequence of characters in which a run of three backticks is one       *)
(*  element.                                                               *)
(***************************************************************************)

\* The number of lines one interactive session reads.
MaxLines == 3

\* A run of three backticks.
Fence == "FENCE"

\* Lines the operator types: a command, a bare fence, a fence with a
\* language tag, a line with an inline fenced span, a chain, a comment and
\* a command with a quoted semicolon.
InputLines ==
    {<<"/", "l">>, <<Fence>>, <<Fence, "p">>, <<"p", Fence, "x", Fence>>,
     <<"/", "a", ";", "/", "b">>, <<"#", "c">>, <<"/", "e", " ", "\"", ";", "\"">>}

\* full_line.count("```")
block_toggles(full_line) ==
    Cardinality({i \in DOMAIN full_line : full_line[i] = Fence})

\* The stateful quote-aware splitter on ';' and newline.
RECURSIVE SplitFrom(_, _, _, _, _)
SplitFrom(full_line, i, current, in_quote, commands) ==
    IF i > Len(full_line)
    THEN IF current # << >> THEN Append(commands, current) ELSE commands
    ELSE LET char == full_line[i] IN
         IF char \in {"'", "\""}
         THEN SplitFrom(full_line, i + 1, Append(current, char),
                        IF in_quote = "" THEN char
                        ELSE IF in_quote = char THEN "" ELSE in_quote,
                        commands)
         ELSE IF char \in {";", "\n"} /\ in_quote = ""
         THEN SplitFrom(full_line, i + 1, << >>, in_quote,
                        Append(commands, current))
         ELSE SplitFrom(full_line, i + 1, Append(current, char), in_quote,
                        commands)

\* startswith("//") or startswith("#")
IsComment(cmd_line) ==
    \/ cmd_line[1] = "#"
    \/ Len(cmd_line) >= 2 /\ cmd_line[1] = "/" /\ cmd_line[2] = "/"

\* The commands of a chain that reach execute_industrial_line, in order.
RECURSIVE Dispatched(_)
Dispatched(commands) ==
    IF commands = << >> THEN << >>
    ELSE LET cmd_line == strip(Head(commands), Whitespace \cup {"\n"}) IN
         IF cmd_line = << >> THEN Dispatched(Tail(commands))
         ELSE IF IsComment(cmd_line) THEN Dispatched(Tail(commands))
         ELSE <<cmd_line>> \o Dispatched(Tail(commands))

\* in_code_block after the odd-count toggle at the head of the function.
Toggled(full_line, block) ==
    IF block_toggles(full_line) % 2 # 0 THEN ~block ELSE block

\* What execute_command_string returns as in_code_block.
code_block_after(full_line, block) ==
    LET toggled == Toggled(full_line, block)
        fenced == block_toggles(full_line) > 0
    IN  IF toggled /\ ~fenced THEN toggled
        ELSE IF toggled THEN (IF fenced THEN FALSE ELSE toggled)
        ELSE IF fenced THEN TRUE
        ELSE toggled

\* The commands the call executes: none when it returns at a fence test.
commands_run(full_line, block) ==
    IF Toggled(full_line, block) \/ block_toggles(full_line) > 0
    THEN << >>
    ELSE Dispatched(SplitFrom(full_line, 1, << >>, "", << >>))

\* interactive_mode reads a line and hands it to execute_command_string.
execute_command_string(full_line) ==
    /\ Len(received) < MaxLines
    /\ received' = Append(received, full_line)
    /\ in_code_block' = code_block_after(full_line, in_code_block)
    /\ executed' = executed \o commands_run(full_line, in_code_block)
    /\ UNCHANGED notFence

FenceStart ==
    /\ in_code_block = FALSE
    /\ received = << >>
    /\ executed = << >>

\* The start of the subsystems added to the first six.
MoreStart == QueryStart /\ EnsStart /\ FenceStart

(***************************************************************************)
(*                           SPECIFICATIONS                                *)
(***************************************************************************)

LedgerInit ==
    /\ ledgerFile \in {NoFile, FileOf(<< >>)}
    /\ LedgerStart
    /\ LockStart /\ MoreStart
    /\ ExecStart
    /\ AdjStart
    /\ GovStart
    /\ WalkStart

LedgerNext == LogAction \/ LogActionWriteFails

SpecLedger == LedgerInit /\ [][LedgerNext]_vars

\* The ledger with its readers and an external actor that cuts files short.
GuardInit ==
    /\ ledgerFile \in {NoFile, FileOf(<<LegacyEntry>>)}
    /\ LedgerStart
    /\ LockStart /\ MoreStart
    /\ ExecStart
    /\ AdjStart
    /\ GovStart
    /\ WalkStart

\* log_action calls per behaviour where an external actor edits the files.
MaxGuardAppends == 2

GuardNext ==
    \/ (nLogged < MaxGuardAppends /\ LogAction)
    \/ (nLogged < MaxGuardAppends /\ LogActionWriteFails)
    \/ ReadLedger
    \/ TruncateLedger
    \/ TruncateBackup
    \/ TamperLedger

SpecGuard == GuardInit /\ [][GuardNext]_vars

LockInit ==
    LockStart /\ MoreStart /\ ledgerFile = NoFile /\ LedgerStart /\ ExecStart /\ AdjStart
    /\ GovStart
    /\ WalkStart

LockNext ==
    \E s \in Sessions :
        \/ Open(s) \/ Flock(s) \/ ReadPid(s) \/ Kill(s) \/ Reflock(s)
        \/ WritePid(s) \/ Leave(s) \/ UnlockClose(s) \/ Unlink(s) \/ Crash(s)

SpecLock == LockInit /\ [][LockNext]_vars

\* The sessions checked: the one of ExecStart, and those that differ from it
\* in one respect: the workspace is the home directory, the workspace link
\* points out of the workspace, a ContextManager is attached (xi_cli.py's
\* main session), the workspace already holds a file.
EmptyDisk == [loc \in FileSlots |-> Missing]
SeededDisk == [EmptyDisk EXCEPT ![WF] = Data(<<"b">>)]
Default == [root |-> WS, link |-> WF, ctx |-> "none", disk |-> EmptyDisk]
Configs ==
    {Default,
     [Default EXCEPT !.root = HOME],
     [Default EXCEPT !.link = HOME],
     [Default EXCEPT !.disk = SeededDisk],
     [Default EXCEPT !.ctx = "ContextManager", !.disk = SeededDisk]}

ExecInit ==
    /\ \E c \in Configs :
          wsRoot = c.root /\ wsLink = c.link /\ ctx = c.ctx /\ fs = c.disk
    /\ bak = [loc \in FileSlots |-> Missing]
    /\ tmps = {}
    /\ res = NoResult
    /\ cli = NoResult
    /\ nOps = 0
    /\ ledgerFile = NoFile /\ LedgerStart
    /\ LockStart /\ MoreStart
    /\ AdjStart
    /\ GovStart
    /\ WalkStart

ExecNext == WriteFile \/ PatchFile \/ ReadFile \/ DeleteFile \/ RunCommand

SpecExec == ExecInit /\ [][ExecNext]_vars

AdjInit ==
    /\ AdjStart
    /\ ledgerFile = NoFile /\ LedgerStart
    /\ LockStart /\ MoreStart
    /\ ExecStart
    /\ GovStart
    /\ WalkStart

AdjNext == ExtractClaim \/ Adjudicate \/ NextEnsemble

SpecAdj == AdjInit /\ [][AdjNext]_vars

\* The workspace of load_state, with or without the file the commands name.
GovInit ==
    /\ GovStart
    /\ WalkStart
    /\ wsRoot = WS /\ wsLink = WF /\ ctx = "ContextManager"
    /\ fs \in {EmptyDisk, SeededDisk}
    /\ bak = EmptyDisk
    /\ tmps = {}
    /\ res = NoResult
    /\ cli = NoResult
    /\ nOps = 0
    /\ ledgerFile = NoFile /\ LedgerStart
    /\ LockStart /\ MoreStart
    /\ AdjStart

GovNext == StartProcess \/ RunLine \/ ExitProcess

SpecGov == GovInit /\ [][GovNext]_vars

\* Any tree of up to FilesPerDir matching files per directory (one in the
\* linked and in the mounted directory); the directory c or the directory a
\* may be unreadable.
WalkInit ==
    /\ nfiles \in {f \in [WalkDirs -> 0..FilesPerDir] : f["l"] = 1 /\ f["m"] = 1}
    /\ readable \in {[d \in WalkDirs |-> TRUE], [d \in WalkDirs |-> d # "c"],
                     [d \in WalkDirs |-> d # "a"]}
    /\ stack = << >>
    /\ scans = [d \in WalkDirs |-> 0]
    /\ count = 0
    /\ samples = 0
    /\ wstatus = "idle"
    /\ report = "none"
    /\ ledgerFile = NoFile /\ LedgerStart
    /\ LockStart /\ MoreStart
    /\ ExecStart
    /\ AdjStart
    /\ GovStart

WalkNext == StartWalk \/ WalkDirectory \/ ReportCount

SpecWalk == WalkInit /\ [][WalkNext]_vars

\* The operator has typed an utterance.
QueryInit ==
    /\ query \in Utterances
    /\ classified = Unclassified
    /\ EnsStart /\ FenceStart
    /\ ledgerFile = NoFile /\ LedgerStart
    /\ LockStart
    /\ ExecStart
    /\ AdjStart
    /\ GovStart
    /\ WalkStart

QueryNext == ClassifyQuery

SpecQuery == QueryInit /\ [][QueryNext]_vars

\* One execute_ensemble call, for every behaviour of the backends.
EnsInit ==
    /\ backend \in [Models -> Backends]
    /\ call = [m \in Models |-> "queued"]
    /\ completed = << >>
    /\ successful = << >>
    /\ ens_claims = << >>
    /\ ens = NoAdjudication
    /\ estage = "idle"
    /\ QueryStart /\ FenceStart
    /\ ledgerFile = NoFile /\ LedgerStart
    /\ LockStart
    /\ ExecStart
    /\ AdjStart
    /\ GovStart
    /\ WalkStart

EnsNext ==
    \/ StartEnsemble
    \/ \E m \in Models : ModelResponds(m)
    \/ \E m \in Models : ModelFails(m)
    \/ Collect
    \/ ExtractAgent
    \/ ReturnEnsemble

SpecEns == EnsInit /\ [][EnsNext]_vars

\* The function leaves the extraction loop and returns.
Returns ==
    /\ estage = "extracting"
    /\ successful = << >>
    /\ estage' = "returned"

\* The same, with every step that can be taken eventually taken: the pool
\* starts every call, a call whose backend answers returns, the pool hands
\* back its results, the extraction loop goes on and the function returns.
SpecEnsLive ==
    /\ EnsInit /\ [][EnsNext]_vars
    /\ WF_vars(StartEnsemble)
    /\ \A m \in Models : WF_vars(ModelResponds(m)) /\ WF_vars(ModelFails(m))
    /\ WF_vars(Collect)
    /\ WF_vars(ExtractAgent)
    /\ WF_estage(Returns)

\* One interactive session: in_code_block = False before the first line.
FenceInit ==
    /\ FenceStart
    /\ QueryStart /\ EnsStart
    /\ ledgerFile = NoFile /\ LedgerStart
    /\ LockStart
    /\ ExecStart
    /\ AdjStart
    /\ GovStart
    /\ WalkStart

FenceNext == \E full_line \in InputLines : execute_command_string(full_line)

SpecFence == FenceInit /\ [][FenceNext]_vars

(***************************************************************************)
(*                              PROPERTIES                                 *)
(***************************************************************************)

\* The entries a reader of the ledger sees now.
Ledger == read(ledgerFile, backups)[1]

\* No append has cut the ledger yet.
NeverTruncated == ~everTruncated

\* C1: from an empty or absent ledger, as long as the appends keep the ledger
\* within the cap, the first entry is chained from GENESIS, every later entry
\* from its predecessor's chain_hash, and verify_chain reports the chain valid
\* with every entry checked and none broken.
C1_ValidChain ==
    NeverTruncated =>
        /\ \A i \in 1..Len(Ledger) :
              /\ "chain_hash" \in DOMAIN Ledger[i]
              /\ Ledger[i].chain_hash =
                    chain_hash(EntryJson(Ledger[i]),
                               IF i = 1 THEN GENESIS ELSE Ledger[i-1].chain_hash)
        /\ verify_chain(Ledger) =
              [valid |-> TRUE, entries_checked |-> Len(Ledger),
               first_broken |-> NoIndex, unchained |-> 0]

C1_Witness == NeverTruncated /\ Len(Ledger) = LedgerCap /\ lastLog = "appended"

\* C2: after an append that cut the ledger to the most recent LedgerCap
\* entries, verify_chain reports the chain valid with no broken entry.
C2_TruncationKeepsChain ==
    lastLog = "truncated" =>
        /\ verify_chain(Ledger).valid
        /\ verify_chain(Ledger).first_broken = NoIndex

\* C3: at most one live session is inside the locked section at any time,
\* whatever the interleaving of sessions entering and leaving workspace_lock.
C3_MutualExclusion == Cardinality(InLockedSection) <= 1

\* The path an executor call works on: patch_file joins the name to
\* working_dir, the other calls use _get_path.
OpPath(r) == IF r.op = "patch" THEN join_working_dir(r.name) ELSE get_path(r.name)

\* Some component of the path below the workspace root is a symbolic link.
HasSymlinkBelowRoot(path) ==
    /\ IsPrefix(wsRoot, path)
    /\ \E n \in (Len(wsRoot) + 1)..Len(path) : is_symlink(SubSeq(path, 1, n))

\* The step is an executor call.
ExecutorCall == nOps' = nOps + 1

\* C4: no write, patch or delete whose target lies outside the workspace root
\* and outside ~/.xi-io returns a receipt with ok = true.
C4_NoMutationOutside ==
    (res.op \in {"write", "patch", "delete"} /\ res.ok) =>
        \/ IsPrefix(wsRoot, Entry(OpPath(res)))
        \/ IsPrefix(SOV, Entry(OpPath(res)))

\* C5 as stated: an executor call on a workspace path with a symbolic link
\* among its components below the workspace root is rejected with exit_code
\* 13, wherever the link points.
C5_SymlinkRejected ==
    (res.op # "none" /\ HasSymlinkBelowRoot(OpPath(res))) =>
        (~res.raised /\ ~res.ok /\ ~res.isText /\ res.exit_code = 13)

\* C5 amended: the same, for the paths that are not lexically inside
\* ~/.xi-io, which the boundary policy exempts from the symlink check.
C5_SymlinkRejectedOutsideSovereign ==
    (res.op # "none" /\ HasSymlinkBelowRoot(OpPath(res))
                     /\ ~IsPrefix(SOV, OpPath(res))) =>
        (~res.raised /\ ~res.ok /\ ~res.isText /\ res.exit_code = 13)

C5_Witness ==
    /\ res.op = "write" /\ res.name = Rel(<<"l">>)
    /\ wsRoot = WS /\ wsLink = WF
    /\ res.exit_code = 13 /\ res.reason = "POLICY_A_REJECTION"

\* C6: every ok = true receipt of write_file carries the SHA-256 and the
\* length of the bytes the caller supplied, and the target holds those bytes.
C6_WriteReceipt ==
    (res.op = "write" /\ res.ok) =>
        /\ res.sha256 = sha256(res.content)
        /\ res.bytes = Len(res.content)
        /\ FileAt(fs, get_path(res.name)) = Data(res.content)

\* A second successful write to a path: the backup holds the text of the
\* first, other than what was written now.
C6_Witness ==
    /\ res.op = "write" /\ res.ok /\ nOps = 2
    /\ Entry(get_path(res.name)) = WF
    /\ bak[WF].exists /\ bak[WF].bytes # read_text(res.content)

\* C7: a read_file that directly follows a successful write_file of the same
\* name returns the bytes written, and is reported with the sha256 of the
\* write receipt.
C7_WriteReadRoundTrip ==
    [][(res.op = "write" /\ res.ok /\ ExecutorCall
            /\ res'.op = "read" /\ res'.name = res.name) =>
          (/\ res'.isText /\ res'.text = res.content
           /\ ~cli'.raised /\ cli'.ok /\ cli'.sha256 = res.sha256)]_vars

\* C8: a patch whose needle is absent from the content of its (existing,
\* in-bounds) target returns exit_code 14 with reason STALE_PLAN and leaves
\* the target, the backups and the temp files as they were.
C8_StalePatchRefused ==
    [][(/\ ExecutorCall /\ res'.op = "patch"
        /\ is_in_bounds(OpPath(res'))
        /\ FileAt(fs, OpPath(res')).exists
        /\ \E p \in Patches :
              /\ res'.find = p[1]
              /\ ~Contains(read_text(FileAt(fs, OpPath(res')).bytes), p[1])) =>
          (/\ ~res'.raised /\ res'.exit_code = 14 /\ res'.reason = "STALE_PLAN"
           /\ fs' = fs /\ bak' = bak /\ tmps' = tmps)]_vars

\* C9: a write or patch that fails after its temp file was made and before
\* the replace leaves no temp file behind and leaves the target untouched.
C9_FailureRemovesTemp ==
    [][(ExecutorCall /\ res'.op \in {"write", "patch"} /\ res'.fault = "write") =>
          (tmps' = tmps /\ fs' = fs)]_vars

\* The normalized keys of the claims adjudicated.
InputKeys == {_normalize_claim(all_claims[i].claim) : i \in 1..Len(all_claims)}

EntryKeys(entries) == {_normalize_claim(entries[i].claim) : i \in 1..Len(entries)}

\* No key has two entries in the two lists together.
OneEntryPerKey ==
    LET both == intersection_truth \o minority_positions
    IN \A i, j \in 1..Len(both) :
          _normalize_claim(both[i].claim) = _normalize_claim(both[j].claim) => i = j

\* C10 as stated: the intersection and the minority are disjoint and hold one
\* group for each distinct normalized key of the input claims, so that
\* |intersection| + |minority| is the number of those keys.
C10_OneGroupPerKey ==
    phase = "adjudicated" =>
        /\ OneEntryPerKey
        /\ EntryKeys(intersection_truth) \cup EntryKeys(minority_positions) = InputKeys
        /\ Len(intersection_truth) + Len(minority_positions) = Cardinality(InputKeys)

\* C10 amended: the same, counting the non-empty normalized keys; a claim
\* whose normalized text is empty belongs to no group.
C10_OneGroupPerNonEmptyKey ==
    phase = "adjudicated" =>
        /\ OneEntryPerKey
        /\ EntryKeys(intersection_truth) \cup EntryKeys(minority_positions)
               = InputKeys \ {<< >>}
        /\ Len(intersection_truth) + Len(minority_positions)
               = Cardinality(InputKeys \ {<< >>})

\* Two agents agree on one claim under different spellings and one of them
\* also makes a claim whose normalized text is empty.
C10_Witness ==
    /\ phase = "adjudicated"
    /\ Len(all_claims) = 3
    /\ << >> \in InputKeys
    /\ Len(intersection_truth) = 1
    /\ intersection_truth[1].frequency = 2
    /\ \E i, j \in 1..Len(all_claims) :
          /\ all_claims[i].claim # all_claims[j].claim
          /\ _normalize_claim(all_claims[i].claim) = _normalize_claim(all_claims[j].claim)

\* The agents that produced a claim with the normalized key k.
Supporters(k) ==
    {all_claims[i].agent : i \in {j \in 1..Len(all_claims) :
                                     _normalize_claim(all_claims[j].claim) = k}}

\* C11: with n successful agents, the group of a normalized claim is in the
\* intersection if and only if at least floor(n/2)+1 distinct agents produced
\* it, an agent repeating a claim counting once; every other group is in the
\* minority.
C11_ThresholdPlacement ==
    phase = "adjudicated" =>
        \A k \in InputKeys \ {<< >>} :
            LET enough == Cardinality(Supporters(k)) >= (total_agents \div 2) + 1
            IN /\ (k \in EntryKeys(intersection_truth)) <=> enough
               /\ (k \in EntryKeys(minority_positions)) <=> ~enough
               /\ \A i \in 1..Len(intersection_truth) :
                     _normalize_claim(intersection_truth[i].claim) = k =>
                         intersection_truth[i].agents = Supporters(k)

\* Three agents; one of them makes a claim twice under two spellings and a
\* second agent makes it once: two supporters, which is the threshold.
C11_Witness ==
    /\ phase = "adjudicated"
    /\ total_agents = 3
    /\ Len(all_claims) = 3
    /\ Len(intersection_truth) = 1
    /\ intersection_truth[1].frequency = 2
    /\ all_claims[1].agent = all_claims[2].agent
    /\ all_claims[1].claim # all_claims[2].claim
    /\ \A i \in 1..3 :
          _normalize_claim(all_claims[i].claim)
              = _normalize_claim(intersection_truth[1].claim)

\* The promoted claim with key p is contradicted by a claim with key k.
Contradicts(k, p) == k = <<"n", "o", "t", " ">> \o p \/ NegatedBy(p, k)

ContradictionDetected ==
    \E p \in EntryKeys(intersection_truth) :
        \E k \in EntryKeys(intersection_truth) \cup EntryKeys(minority_positions) :
            Contradicts(k, p)

\* C13: the result is ADJUDICATED if and only if the intersection is not
\* empty and no contradiction is detected; with an empty intersection the
\* result is HALT and carries the minority positions and the raw candidates.
C13_AdjudicatedIff ==
    phase = "adjudicated" =>
        /\ adjudication.status \in {"ADJUDICATED", "HALT"}
        /\ adjudication.status = "ADJUDICATED" <=>
               (intersection_truth # << >> /\ ~ContradictionDetected)
        /\ adjudication.status = "ADJUDICATED" =>
               /\ adjudication.intersection_truth = intersection_truth
               /\ adjudication.minority_positions = minority_positions
        /\ intersection_truth = << >> =>
               /\ adjudication.status = "HALT"
               /\ adjudication.reason = "Equilibrium not reached (OH001)"
               /\ adjudication.disagreements = minority_positions
               /\ adjudication.raw_candidates = all_claims

\* Two agents assert different facts.
C13_Witness ==
    /\ phase = "adjudicated"
    /\ total_agents = 2
    /\ Len(all_claims) = 2
    /\ all_claims[1].agent # all_claims[2].agent
    /\ adjudication.status = "HALT"
    /\ Len(adjudication.disagreements) = 2
    /\ adjudication.raw_candidates = all_claims

\* C14: an executor operation is never started by the answer of a single
\* model: the lines that start one come from the operator.
C14_NoSingleModelExec ==
    lastLine.origin = "model" =>
        /\ ~(lastLine.invoked /\ lastLine.cmd \in {"write", "patch", "delete", "run"})
        /\ ~lastLine.changed

\* C17: a command that is forbidden in the current mode has no effect and
\* ends the process with exit code 13 and the refusal message of the mode.
C17_ForbiddenExits13 ==
    (lastLine.cmd \in Forbidden(mode) /\ mode \in {"PLAN", "DEBUG"}) =>
        /\ lastLine.refused /\ ~lastLine.changed
        /\ lastLine.message = RefusalMessage(mode)
        /\ proc = "exited" /\ rc = 13

\* C18: while a process runs in PLAN or DEBUG mode no file of the workspace
\* is created, modified or deleted.
C18_PlanDebugReadOnly ==
    [][(proc = "running" /\ mode \in {"PLAN", "DEBUG"}) =>
          (fs' = fs /\ bak' = bak /\ tmps' = tmps)]_vars

\* C19: a write, patch, delete or run command in CHAT or REVIEW mode is
\* refused and has no effect.
C19_ChatReviewRefuses ==
    (mode \in {"CHAT", "REVIEW"}
        /\ lastLine.cmd \in {"write", "patch", "delete", "run"}) =>
        (lastLine.refused /\ ~lastLine.changed)

\* The walk has returned.
Returned == wstatus \in {"OK", "MAX_REACHED", "TIMEOUT", "OS_ERROR"}

\* C15: the count _governed_recursive_count returns never exceeds max_files.
C15_CountWithinCap == Returned => count <= max_files

\* C16: when the directories walked hold more matching files than the cap,
\* the walk does not return OK and the query prints the halt message, not a
\* count (a TIMEOUT that comes first is taken as a halt too).
C16_OverCapHalts ==
    (Returned /\ wstatus # "OS_ERROR" /\ SumFiles(Walked) > max_files) =>
        /\ wstatus \in {"MAX_REACHED", "TIMEOUT"}
        /\ report # "Count"

\* C20: every executor write that returns ok = true appends exactly one entry
\* to the audit ledger, so that the ledger lists the writes in the order they
\* were executed.
C20_WriteAppendsLedgerEntry ==
    [][(ExecutorCall /\ res'.op = "write" /\ res'.ok) =>
          Len(Ledger') = Len(Ledger) + 1]_vars

\* The backups whose content parses as an array.
ValidBackups == {i \in 1..Len(backups) : validate(backups[i].content)}

\* The newest of them.
NewestValid == CHOOSE i \in ValidBackups : \A j \in ValidBackups : j <= i

\* The step is a call of LedgerGuard.read on a live file that exists and
\* does not parse as an array.
ReadsCutLedger ==
    /\ ledgerFile = CutFile
    /\ ~readOut.done /\ readOut'.done

HoldsLive(h) ==
    /\ Alive(h)
    /\ fd[h] # 0
    /\ inodeLock[fd[h]] = h
    /\ inodeText[fd[h]] = h

\* Session s passes the locking code and goes on to write its PID.
Acquires(s) ==
    /\ pc[s] \in {"flock", "read_pid", "kill", "reflock"}
    /\ pc'[s] = "write"

\* C22: while a live session holds the lock with its PID recorded, no other
\* session gets past the locking code: it is refused, and does not go on to
\* the locked section.
C22_LiveHolderRefuses ==
    [][\A s \in Sessions :
          Acquires(s) => ~ \E h \in Sessions \ {s} : HoldsLive(h)]_vars

\* The lockfile inode i records the PID of a process that has ended, and
\* nobody holds the exclusive lock on it.
StaleLock(i) ==
    /\ inodeText[i] # 0
    /\ ~Alive(inodeText[i])
    /\ inodeLock[i] = 0

\* C23: a session that tries a lock left by a dead session takes it and then
\* writes its own PID over the old one; and a session is refused as busy
\* only while another session is alive, so a dead session blocks nobody.
C23_StaleLockReclaimed ==
    [][\A s \in Sessions :
          /\ (pc[s] = "flock" /\ pc'[s] \notin {"flock", "dead"}
                 /\ StaleLock(fd[s])) =>
                (pc'[s] = "write" /\ inodeLock'[fd[s]] = s)
          /\ (pc[s] = "write" /\ pc'[s] = "critical") =>
                inodeText'[fd[s]] = s
          /\ (exitStatus[s] = "" /\ exitStatus'[s] = "BUSY_WORKSPACE") =>
                \E h \in Sessions \ {s} : Alive(h)]_vars

\* A session has taken the lock of a session that died inside the locked
\* section, and is about to overwrite the dead session's PID.
C23_Witness ==
    \E s \in Sessions, h \in Sessions :
        /\ pc[h] = "dead"
        /\ pc[s] = "write"
        /\ inodeLock[fd[s]] = s
        /\ inodeText[fd[s]] = h

\* C24: an executor call whose path fails the boundary check returns the
\* receipt ok = false, exit_code = 13, policy = "blocked", reason =
\* "POLICY_A_REJECTION", and leaves every file, backup and temp file as it
\* was.
C24_BoundaryRefusalNoEffect ==
    [][(ExecutorCall /\ res'.op \in {"read", "write", "patch", "delete"}
            /\ ~is_in_bounds(OpPath(res'))) =>
          /\ res' = Blocked(res'.op, res'.name)
          /\ ~res'.ok /\ res'.exit_code = 13 /\ res'.policy = "blocked"
          /\ res'.reason = "POLICY_A_REJECTION"
          /\ fs' = fs /\ bak' = bak /\ tmps' = tmps]_vars

\* A delete of an existing file outside the boundary was refused.
C24_Witness ==
    /\ res = Blocked("delete", res.name)
    /\ ~is_in_bounds(get_path(res.name))
    /\ Entry(get_path(res.name)) \in FileSlots
    /\ fs[Entry(get_path(res.name))].exists

\* C25: a write directive on which the runaway guard triggers (and which the
\* mode governor lets pass) ends the process with exit code 16 in either
\* output format, and changes no file.
C25_RunawayGuardExits16 ==
    (/\ lastLine.cmd = "write" /\ lastLine.origin = "operator"
     /\ lastLine.cmd \notin Forbidden(mode)
     /\ runaway_guard(lastLine.text)) =>
        (proc = "exited" /\ rc = 16 /\ ~lastLine.changed)

\* C26: a shell run cancelled at the wall-clock timeout returns a receipt
\* with ok = false and exit_code = 15; a run that completes returns a receipt
\* with ok = (exit_code = 0).
C26_RunReceipt ==
    (res.op = "run" /\ ~res.raised) =>
        IF res.fault = "timeout"
        THEN ~res.ok /\ res.exit_code = 15
        ELSE res.exit_code \in ReturnCodes /\ res.ok = (res.exit_code = 0)

\* The write or patch of the step found, when it read the target again after
\* the replace, other bytes than it had written.
HashMismatch == ExecutorCall /\ res'.op \in {"write", "patch"} /\ res'.fault = "sector"

\* C27: a write or patch whose target does not hash to the expected value
\* after the replace returns ok = false, exit_code = 12, reason =
\* "HARDWARE_VERIFICATION_FAILED", and the content the target had before is
\* held by its sibling backup.
C27_HashMismatchKeepsBackup ==
    [][HashMismatch =>
          /\ ~res'.ok /\ res'.exit_code = 12
          /\ res'.reason = "HARDWARE_VERIFICATION_FAILED"
          /\ FileAt(fs, OpPath(res')).exists =>
                bak'[resolve(OpPath(res'))] = Data(FileAt(fs, OpPath(res')).bytes)]_vars

\* C28: no executor call ends with an exception: read_file, write_file,
\* patch_file, delete_file and run_command return their result or a failure
\* receipt, with or without a context manager attached.
C28_NoExceptionEscapes == ~res.raised

\* C29: normalizing a normalized claim changes nothing:
\* _normalize_claim(_normalize_claim(x)) = _normalize_claim(x) for every
\* claim text x the agents give.
C29_NormalizeIsProjection ==
    \A i \in 1..Len(all_claims) :
        _normalize_claim(_normalize_claim(all_claims[i].claim))
            = _normalize_claim(all_claims[i].claim)

\* The chain_hash stored in the chained entry before position i, GENESIS
\* when there is none.
PrevStored(ledger, i) ==
    LET before == {j \in Chained(ledger) : j < i}
    IN IF before = {} THEN GENESIS
       ELSE ledger[CHOOSE j \in before : \A k \in before : k <= j].chain_hash

\* The chained entries whose stored chain_hash is not the hash of their
\* content and of the chain_hash stored before them.
Broken(ledger) ==
    {i \in Chained(ledger) :
        ledger[i].chain_hash # chain_hash(EntryJson(ledger[i]), PrevStored(ledger, i))}

\* The step is an edit of the entries of the live ledger by an external
\* actor.
Tampers ==
    /\ nTampers' = nTampers + 1
    /\ validate(ledgerFile')
    /\ ledgerFile' # ledgerFile

\* What C30 requires of verify_chain on the edited ledger: valid = false,
\* first_broken the index of the first entry whose stored chain_hash differs
\* from the hash recomputed from its predecessor, the entries without
\* chain_hash met on the way skipped and counted in unchained.
ReportsFirstBroken(ledger) ==
    LET v == verify_chain(ledger)
        first == CHOOSE i \in Broken(ledger) : \A j \in Broken(ledger) : i <= j
    IN /\ Broken(ledger) # {}
       /\ ~v.valid
       /\ v.first_broken = first - 1
       /\ v.entries_checked = first
       /\ v.unchained = Cardinality((1..first) \ Chained(ledger))

\* C30: after the content or the chain_hash of a chained entry of an intact
\* ledger was altered, or an entry that is not the last was removed or
\* moved, with no hash recomputed, verify_chain returns valid = false and
\* first_broken is the index of the first entry whose stored chain_hash
\* differs from the hash recomputed from its predecessor; the entries
\* without chain_hash met on the way are skipped and counted in unchained.
C30_TamperEvident ==
    [][(Tampers /\ Intact(Ledger)) => ReportsFirstBroken(Ledger')]_vars

\* The live ledger file is corrupt and no backup validates: restore fails.
Unrestorable ==
    /\ ledgerFile.exists
    /\ ~validate(ledgerFile)
    /\ ~restore(ledgerFile, backups)[1]

\* C31: when the ledger is corrupt and restore from backup fails, the next
\* log_action that writes leaves a ledger whose new entry is chained from
\* GENESIS, and the metadata of that entry records the reset (it is not the
\* metadata the caller passed, which is empty).
C31_ResetRecorded ==
    [][(Unrestorable /\ nLogged' = nLogged + 1 /\ lastLog' # "failed") =>
          LET new == Ledger'[Len(Ledger')]
          IN /\ validate(ledgerFile')
             /\ new.chain_hash = chain_hash(EntryJson(new), GENESIS)
             /\ new.metadata # << >>]_vars

\* The utterance, lower-cased as typed, holds a counting phrase.
HasCountingPhrase(text) ==
    \/ SearchWord(<<"h", "o", "w", " ", "m", "a", "n", "y">>, lower_text(text))
    \/ Contains(lower_text(text), <<"c", "o", "u", "n", "t">>)

\* The utterance holds an exclusion phrase.
HasExclusionPhrase(text) ==
    \E k \in ExclusionPhrases : Contains(lower_text(text), k)

\* The utterance holds one of the factual phrases.
HasFactualPhrase(text) ==
    \E q \in _static_phrases : Contains(lower_text(text), q)

\* The utterance holds a recursive keyword.
HasRecursiveScope(text) ==
    \E k \in _RECURSIVE_KEYWORDS : Contains(lower_text(text), k)

\* C32: classify_query follows the ordered decision procedure: counting and
\* exclusion give REASONING; otherwise counting gives COMPUTED(scope,
\* extensions) exactly when the scope is recursive or an extension was
\* detected, and STATIC when not; otherwise a factual phrase gives STATIC;
\* everything else is REASONING.
C32_OrderedDecision ==
    classified # Unclassified =>
        LET cls == classified[1]
            meta == classified[2]
            exts == _extract_extensions(Normalized(query))
            cnt == HasCountingPhrase(query)
            recursive == HasRecursiveScope(query)
        IN /\ (cnt /\ HasExclusionPhrase(query)) => cls = "REASONING"
           /\ (cnt /\ ~HasExclusionPhrase(query)) =>
                 /\ cls = "COMPUTED_STATE" <=> (recursive \/ exts # {})
                 /\ cls # "COMPUTED_STATE" => cls = "STATIC_STATE"
                 /\ cls = "COMPUTED_STATE" =>
                       /\ meta.scope = IF recursive THEN "recursive" ELSE "local"
                       /\ meta.exts = exts
           /\ (~cnt /\ HasFactualPhrase(query)) => cls = "STATIC_STATE"
           /\ (~cnt /\ ~HasFactualPhrase(query)) => cls = "REASONING"

\* An utterance with a counting phrase, an extension and a factual phrase
\* was classified COMPUTED: counting came first.
C32_Witness ==
    /\ HasCountingPhrase(query)
    /\ HasFactualPhrase(query)
    /\ classified[1] = "COMPUTED_STATE"
    /\ classified[2].scope = "local"
    /\ classified[2].exts = {<<".", "p", "y">>}

\* C33: execute_ensemble always eventually returns a result, also when a
\* backend never responds.
C33_EnsembleReturns == (estage = "generating") ~> (estage = "returned")

\* The claims of the agents whose backend answers, from model m on, in the
\* order of models.
RECURSIVE ClaimsInModelOrder(_)
ClaimsInModelOrder(m) ==
    IF m > EnsembleSize THEN << >>
    ELSE IF backend[m].gen = "ok"
         THEN _extract_claims(m) \o ClaimsInModelOrder(m + 1)
         ELSE ClaimsInModelOrder(m + 1)

\* What the backends' answers alone decide: the result over the agents that
\* answered, taken in the order of models.
ResultOfAnswers ==
    LET answered == {m \in Models : backend[m].gen = "ok"}
    IN IF answered = {}
       THEN [status |-> "HALT", reason |-> "All models failed"]
       ELSE IF ClaimsInModelOrder(1) = << >>
            THEN [status |-> "HALT",
                  reason |-> "Structured claim extraction failed for all agents"]
            ELSE _adjudicate_claims(ClaimsInModelOrder(1), Cardinality(answered))

\* C34: claim extraction and adjudication start only after every parallel
\* model call has finished, and the result (status, intersection, minority,
\* canonical claim texts) is decided by the answers alone, whatever the
\* order in which the calls completed.
C34_CompletionOrderIrrelevant ==
    /\ estage \in {"extracting", "returned"} =>
          /\ \A m \in Models : call[m] \in {"ok", "error"}
          /\ Len(completed) = EnsembleSize
    /\ estage = "returned" => ens = ResultOfAnswers

\* The last model answered first with ' X.', the first model answered 'x':
\* the result is ADJUDICATED and the canonical text is the first model's.
C34_Witness ==
    /\ estage = "returned"
    /\ completed[1] = EnsembleSize
    /\ backend[EnsembleSize].claims = << <<" ", "X", ".">> >>
    /\ backend[1].claims = << <<"x">> >>
    /\ ens.status = "ADJUDICATED"
    /\ ens.intersection_truth[1].claim = <<"x">>

\* C35: when the walk returns OK, count is the number of matching regular
\* files in the root and in every directory reachable from it without
\* entering a pruned directory, a symbolic link or another device; each of
\* these directories was scanned exactly once and no other directory was; at
\* most 5 samples are returned; an unreadable directory is skipped and the
\* walk goes on.
C35_WalkCountsReachable ==
    wstatus = "OK" =>
        /\ count = SumFiles(Walked)
        /\ \A d \in WalkDirs : scans[d] = IF d \in Reached THEN 1 ELSE 0
        /\ samples <= 5
        /\ samples = IF count < 5 THEN count ELSE 5

\* The walk returned OK with more than five files counted, having skipped
\* the unreadable directory a, and with it c, and having left the linked,
\* the mounted and the pruned directory alone.
C35_Witness ==
    /\ wstatus = "OK"
    /\ ~readable["a"]
    /\ scans["a"] = 1
    /\ nfiles["c"] > 0
    /\ nfiles[".git"] > 0
    /\ count = nfiles["root"] + nfiles["b"]
    /\ count > 5
    /\ samples = 5

\* The spec's code-block mode: an odd number of the lines received so far
\* hold a single fence.
InsideFences(lines) ==
    Cardinality({i \in DOMAIN lines : block_toggles(lines[i]) = 1}) % 2 = 1

\* C36: a line with a single fence toggles code-block mode, a line received
\* between an opening fence and its closing fence executes nothing, and a
\* line received outside the fences has its commands executed.
C36_FencesRespected ==
    [][received' # received =>
        LET full_line == received'[Len(received')] IN
        /\ block_toggles(full_line) = 1 => in_code_block' # in_code_block
        /\ (InsideFences(received) /\ block_toggles(full_line) = 0)
               => executed' = executed
        /\ (~InsideFences(received) /\ block_toggles(full_line) = 0)
               => executed' = executed \o
                      Dispatched(SplitFrom(full_line, 1, << >>, "", << >>))]_vars

\* C37: a session refused as busy neither removes nor rewrites the lockfile
\* of the live holder: while another session holds the lock on the file the
\* path names, with its PID recorded, no step of the refused session changes
\* what the path names or the PID recorded in any lockfile.
C37_RefusedLeavesLockfile ==
    [][\A s \in Sessions :
          (/\ exitStatus[s] = "BUSY_WORKSPACE"
           /\ pc'[s] # pc[s]
           /\ \E h \in Sessions \ {s} : HoldsLive(h) /\ lockPath = fd[h]) =>
              (lockPath' = lockPath /\ inodeText' = inodeText)]_vars

\* C38: when the ledger file holds validly chained entries and legacy
\* entries in any positions (verify_chain accepts it) and an append by
\* log_action leaves it within the cap, verify_chain accepts the ledger
\* after the append.
C38_LegacyTolerated ==
    [][(/\ validate(ledgerFile)
        /\ verify_chain(Ledger).valid
        /\ \E i \in 1..Len(Ledger) : i \notin Chained(Ledger)
        /\ nLogged' = nLogged + 1
        /\ lastLog' = "appended"
        /\ Len(Ledger') = Len(Ledger) + 1) =>
            verify_chain(Ledger').valid]_vars

\* C39: an executor call whose path is lexically under ~/.xi-io but leads,
\* through ".." components or links, to a location outside ~/.xi-io and
\* outside the workspace root gives no ok = true receipt.
C39_SovereignOnlyInside ==
    (/\ res.op # "none"
     /\ IsPrefix(SOV, OpPath(res))
     /\ ~IsPrefix(SOV, resolve(OpPath(res)))
     /\ ~IsPrefix(wsRoot, resolve(OpPath(res)))) =>
        ~res.ok

\* C40: every claim in the intersection of an ADJUDICATED result was made
\* by at least two distinct agents, whatever the number of successful agents.
C40_TwoSupporters ==
    (phase = "adjudicated" /\ adjudication.status = "ADJUDICATED") =>
        \A i \in 1..Len(adjudication.intersection_truth) :
            Cardinality(Supporters(_normalize_claim(
                adjudication.intersection_truth[i].claim))) >= 2

=============================================================================
